---- MODULE Spec2Model ----
(***************************************************************************)
(* Reconciliation engine of shopify-xero-sync: the sync engine             *)
(* (src/src/sync_engine.py), the SQLite mapping store                      *)
(* (src/src/database.py) and the checksum calculator                       *)
(* (src/src/checksums.py), with Shopify as the source and Xero as the      *)
(* destination.  One action per handler; the remote systems answer every   *)
(* call with a nondeterministically chosen outcome.                        *)
(***************************************************************************)
EXTENDS Integers, Sequences, FiniteSets, TLC

\* ------------------------------------------------------------------ bounds
MaxRuns == 2
MaxEdits == 1
MaxFaults == 1
MaxCalls == 2      \* store calls of one process, when two share the store
MaxAttempts == 5   \* attempts of one source-adapter request that are followed
MaxBulk == 3       \* customer ids handed to the bulk marketing-consent job

\* ------------------------------------------------------- source population
\* Shopify ids are numbered per resource type, so entities of different types
\* may carry the same id (tests/fixtures/shopify_fixtures.py uses id 1 for a
\* customer, a product and an order): here customer 1 and order 1 do.
CustomerIds == {1, 2}
ProductIds == {5}
OrderIds == {1, 3}
\* Values of settings.max_retries: the least one allowed and the default.
MaxRetriesValues == {1, 3}
EntityTypes == {"customer", "product", "order"}
\* The customer ids the bulk marketing-consent job may be handed.
BulkIds == 1..MaxBulk
\* Two instances of sync.py pointed at the same database file.
Processes == {1, 2}

INVOICE_REFERENCE_PREFIX == "SHOP-"

\* Outcome of one remote call: it succeeds, raises XeroAPIError, or raises
\* another exception (the client only wraps AccountingBadRequestException).
Outcomes == {"ok", "api_error", "exc"}

VARIABLES
    customers,   \* Shopify customers: id -> [email, first_name, updated_at]
    products,    \* Shopify products:  id -> [sku, title, updated_at]
    orders,      \* Shopify orders:    id -> [order_number, line_items, customer, updated_at]
    contacts,    \* Xero contacts: set of [id, email, status, name]
    items,       \* Xero items:    set of [id, code, name, archived]
    invoices,    \* Xero invoices: set of [id, reference, contact]
    nextXeroId,  \* next id the destination assigns
    mappings,    \* table sync_mappings: set of rows
    errors,      \* table sync_errors: set of rows
    nextErrorId, \* AUTOINCREMENT counter of sync_errors
    history,     \* table sync_history: set of rows
    now,         \* datetime.utcnow()
    pc,          \* position of the engine
    run,         \* [id, dry_run, force, enable_email_marketing] of the
                 \* current run; id counts the runs
                 \* of sync.py, full or --retry
    queue,       \* entities fetched for the current phase, not yet processed
    stats,       \* SyncStats of the current run: phase -> SyncResult
    edits,       \* number of source edits so far
    faults,      \* number of remote calls that failed so far
    last,        \* outcome of the most recent per-entity sync
    curOut,      \* per entity, what the current run recorded
    prevOut,     \* per entity, what the previous run recorded
    retry,       \* the current or latest retry_failed_syncs call
    conns,       \* per process: its connection inside a record_error call
    request,     \* the source-adapter request under way or made last
    bulk,        \* the bulk marketing-consent job under way or run last
    sample       \* two entities of one type and their checksum data

vars == <<customers, products, orders, contacts, items, invoices, nextXeroId,
          mappings, errors, nextErrorId, history, now, pc, run, queue, stats,
          edits, faults, last, curOut, prevOut, retry, conns, request, bulk, sample>>

sourceVars == <<customers, products, orders>>
remoteVars == <<contacts, items, invoices, nextXeroId>>
storeVars == <<mappings, errors, nextErrorId>>

\* ---------------------------------------------------------------- checksums
\* hashlib.sha256 is taken to be injective on the encodings that occur.
Sha256(data) == <<"sha256", data>>

\* "|".join(parts)
RECURSIVE Join(_, _)
Join(sep, parts) ==
    IF Len(parts) = 0 THEN ""
    ELSE IF Len(parts) = 1 THEN parts[1]
    ELSE parts[1] \o sep \o Join(sep, Tail(parts))

\* The model's customers have no phone and no default address.
calculate_customer_checksum(c) ==
    Sha256(Join("|", <<c.email, c.first_name, "", "">>))

\* vendor and product_type are empty, the primary variant's price is fixed.
calculate_product_checksum(p) ==
    Sha256(Join("|", <<p.title, "", "", "1.00", p.sku>>))

RECURSIVE LineItemsData(_)
LineItemsData(lis) ==
    IF Len(lis) = 0 THEN <<>>
    ELSE <<lis[1].title \o ":" \o ToString(lis[1].quantity) \o ":" \o lis[1].price>>
         \o LineItemsData(Tail(lis))

calculate_order_checksum(o) ==
    Sha256(Join("|", <<ToString(o.order_number), "0.00", "0.00", "0.00", "",
                       o.email, Join(";", LineItemsData(o.line_items))>>))

has_changed(old_checksum, new_checksum) == old_checksum # new_checksum

\* ------------------------------------------------------------ mapping store
NoMapping == [shopify_id |-> "", xero_id |-> 0, entity_type |-> "",
              last_synced_at |-> 0, shopify_updated_at |-> 0,
              checksum |-> <<"", "">>]

\* SELECT * FROM sync_mappings WHERE shopify_id = ?  (fetchone)
get_mapping(table, shopify_id) ==
    IF \E r \in table : r.shopify_id = shopify_id
    THEN CHOOSE r \in table : r.shopify_id = shopify_id
    ELSE NoMapping

\* A plain INSERT without ON CONFLICT, on a table without the primary key.
upsert_mapping_plain_insert(table, m) == table \cup {m}

\* INSERT ... ON CONFLICT(shopify_id) DO UPDATE SET xero_id, last_synced_at,
\* shopify_updated_at, checksum  (entity_type is not in the SET list).
upsert_mapping(table, m) ==
    IF \E r \in table : r.shopify_id = m.shopify_id
    THEN {IF r.shopify_id = m.shopify_id
          THEN [r EXCEPT !.xero_id = m.xero_id,
                         !.last_synced_at = m.last_synced_at,
                         !.shopify_updated_at = m.shopify_updated_at,
                         !.checksum = m.checksum]
          ELSE r : r \in table}
    ELSE table \cup {m}

\* DELETE FROM sync_mappings WHERE shopify_id = ?
delete_mapping(table, shopify_id) == {r \in table : r.shopify_id # shopify_id}

\* Nothing is deleted.
clear_error_deleting_nothing(table, shopify_id) == table

\* DELETE FROM sync_errors WHERE shopify_id = ?
clear_error(table, shopify_id) == {r \in table : r.shopify_id # shopify_id}

\* The row record_error updates: the latest one of (entity_type, shopify_id).
ExistingError(table, entity_type, shopify_id) ==
    CHOOSE r \in table :
        /\ r.entity_type = entity_type /\ r.shopify_id = shopify_id
        /\ \A s \in table :
              (s.entity_type = entity_type /\ s.shopify_id = shopify_id)
                  => (s.occurred_at < r.occurred_at
                      \/ (s.occurred_at = r.occurred_at /\ s.id >= r.id))

\* The error is logged but not stored.
record_error_not_stored(table, nextId, entity_type, shopify_id, error_message) ==
    [table |-> table, nextId |-> nextId]

\* Every error is inserted as a new row.
record_error_always_inserting(table, nextId, entity_type, shopify_id, error_message) ==
    [table |-> table \cup {[id |-> nextId, entity_type |-> entity_type,
                            shopify_id |-> shopify_id,
                            error_message |-> error_message,
                            occurred_at |-> now, retry_count |-> 0]},
     nextId |-> nextId + 1]

\* Returns the new table and the new AUTOINCREMENT counter.
record_error(table, nextId, entity_type, shopify_id, error_message) ==
    IF \E r \in table : r.entity_type = entity_type /\ r.shopify_id = shopify_id
    THEN LET existing == ExistingError(table, entity_type, shopify_id)
         IN  [table |-> {IF r.id = existing.id
                         THEN [r EXCEPT !.error_message = error_message,
                                        !.occurred_at = now,
                                        !.retry_count = r.retry_count + 1]
                         ELSE r : r \in table},
              nextId |-> nextId]
    ELSE [table |-> table \cup {[id |-> nextId, entity_type |-> entity_type,
                                 shopify_id |-> shopify_id,
                                 error_message |-> error_message,
                                 occurred_at |-> now, retry_count |-> 0]},
          nextId |-> nextId + 1]

\* record_error, lines 363-373: the SELECT. 0 stands for "no row"; the ids
\* AUTOINCREMENT assigns start at 1.
record_error_select(table, entity_type, shopify_id) ==
    IF \E r \in table : r.entity_type = entity_type /\ r.shopify_id = shopify_id
    THEN ExistingError(table, entity_type, shopify_id).id
    ELSE 0

\* record_error, lines 375-393: the UPDATE of the row the SELECT returned
\* (WHERE id = ?), or the INSERT when it returned none.
record_error_write(table, nextId, existing, entity_type, shopify_id, error_message) ==
    IF existing # 0
    THEN [table |-> {IF r.id = existing
                     THEN [r EXCEPT !.error_message = error_message,
                                    !.occurred_at = now,
                                    !.retry_count = r.retry_count + 1]
                     ELSE r : r \in table},
          nextId |-> nextId]
    ELSE [table |-> table \cup {[id |-> nextId, entity_type |-> entity_type,
                                 shopify_id |-> shopify_id,
                                 error_message |-> error_message,
                                 occurred_at |-> now, retry_count |-> 0]},
          nextId |-> nextId + 1]

\* A process outside record_error.
NoConn == [pc |-> "closed", calls |-> 0, existing |-> 0, entity_type |-> "",
           shopify_id |-> "", error_message |-> ""]

\* The latest finished run counts, whatever its status.
get_last_successful_sync_of_any_status ==
    LET done == {h \in history : h.status # "running"}
    IN  IF done = {} THEN 0
        ELSE (CHOOSE h \in done : \A g \in done : g.completed_at <= h.completed_at).completed_at

\* SELECT * FROM sync_errors WHERE retry_count < ? ORDER BY occurred_at DESC,
\* as a sequence; rows of one occurred_at come latest id first.
RECURSIVE Latest(_)
Latest(rows) ==
    IF rows = {} THEN <<>>
    ELSE LET r == CHOOSE x \in rows :
                     \A y \in rows : \/ y.occurred_at < x.occurred_at
                                      \/ (y.occurred_at = x.occurred_at /\ y.id <= x.id)
         IN  <<r>> \o Latest(rows \ {r})
get_errors(table, max_retry_count) ==
    Latest({r \in table : r.retry_count < max_retry_count})

\* SELECT * FROM sync_history WHERE status = 'success'
\*   ORDER BY completed_at DESC LIMIT 1; 0 stands for "no successful run".
get_last_successful_sync ==
    LET ok == {h \in history : h.status = "success"}
    IN  IF ok = {} THEN 0
        ELSE (CHOOSE h \in ok : \A g \in ok : g.completed_at <= h.completed_at).completed_at

\* ------------------------------------------------------------- destination
NoContact == [id |-> 0, email |-> "", status |-> "", name |-> ""]
NoItem == [id |-> 0, code |-> "", name |-> "", sold |-> FALSE]
NoInvoice == [id |-> 0, reference |-> "", contact |-> 0]

\* What a by-key search may return as its first hit: any record with the
\* key, or nothing when there is none.
Hits(found, none) == IF found = {} THEN {none} ELSE found

ById(coll, none, id) ==
    IF \E k \in coll : k.id = id THEN CHOOSE k \in coll : k.id = id ELSE none

\* A mutating call on a record the destination does not hold cannot succeed.
Effective(outcome, coll, id) ==
    IF outcome = "ok" /\ ~(\E k \in coll : k.id = id) THEN "api_error" ELSE outcome

\* ------------------------------------------------- result of one entity sync
\* What a _sync_single_* call leaves behind: the (action, error) tuple it
\* returns or the exception it raises, the tables and the destination as it
\* left them, and the remote calls it issued.
R0 == [action |-> "", error |-> "", exc |-> FALSE,
       maps |-> mappings, errs |-> errors,
       contacts |-> contacts, items |-> items, invoices |-> invoices,
       nx |-> nextXeroId,
       creates |-> 0, updates |-> 0, archives |-> 0, lookups |-> 0, gets |-> 0,
       marketing |-> 0,
       newId |-> 0, match |-> "none", failed |-> 0,
       out |-> [creates |-> "", updates |-> "", archives |-> "", lookups |-> "",
                gets |-> ""]]

Ret(r, action, error) == [r EXCEPT !.action = action, !.error = error]
Raise(r) == [r EXCEPT !.exc = TRUE, !.error = "exc"]
\* r after one more remote call of the given kind with the given outcome.
Call(r, kind, outcome) ==
    [r EXCEPT ![kind] = @ + 1,
              !.failed = IF outcome = "ok" THEN @ ELSE @ + 1,
              !.out[kind] = outcome]
\* The same for a mutating call on the record id of coll.
CallOn(r, kind, outcome, coll, id) ==
    [Call(r, kind, outcome) EXCEPT !.out[kind] = Effective(outcome, coll, id)]

\* The mapping gets the Shopify id where the Xero id belongs.
NewMapping_shopify_id_as_xero_id(e, etype, xero_id, checksum) ==
    [shopify_id |-> ToString(e.id), xero_id |-> e.id, entity_type |-> etype,
     last_synced_at |-> now, shopify_updated_at |-> e.updated_at,
     checksum |-> checksum]

\* The mapping is saved without its checksum.
NewMapping_without_checksum(e, etype, xero_id, checksum) ==
    [shopify_id |-> ToString(e.id), xero_id |-> xero_id, entity_type |-> etype,
     last_synced_at |-> now, shopify_updated_at |-> e.updated_at,
     checksum |-> <<"", "">>]

NewMapping(e, etype, xero_id, checksum) ==
    [shopify_id |-> ToString(e.id), xero_id |-> xero_id, entity_type |-> etype,
     last_synced_at |-> now, shopify_updated_at |-> e.updated_at,
     checksum |-> checksum]

\* ------------------------------------------------------------ customer sync
PushContact(coll, id, c) ==
    {IF k.id = id THEN [k EXCEPT !.email = c.email, !.name = c.first_name] ELSE k
       : k \in coll}

\* The mapping is updated and saved before update_contact is awaited.
update_customer_in_xero_saving_first(c, mapping, new_checksum, u) ==
    LET sid == ToString(c.id)
        r1 == [CallOn(R0, "updates", u, contacts, mapping.xero_id) EXCEPT
                 !.maps = upsert_mapping(mappings,
                             [mapping EXCEPT !.last_synced_at = now,
                                             !.shopify_updated_at = c.updated_at,
                                             !.checksum = new_checksum])]
        eu == Effective(u, contacts, mapping.xero_id)
    IN  IF run.dry_run THEN Ret(R0, "updated", "")
        ELSE IF eu = "ok" THEN
            Ret([r1 EXCEPT
                   !.contacts = PushContact(contacts, mapping.xero_id, c),
                   !.errs = clear_error(errors, sid)],
                "updated", "")
        ELSE IF eu = "api_error" THEN
            Ret(r1, "skipped", "Failed to update contact for customer " \o sid)
        ELSE Raise(r1)

\* sync_engine.py 404-437; u is the outcome of update_contact.
update_customer_in_xero(c, mapping, new_checksum, u) ==
    LET sid == ToString(c.id)
        r1 == CallOn(R0, "updates", u, contacts, mapping.xero_id)
        eu == Effective(u, contacts, mapping.xero_id)
    IN  IF run.dry_run THEN Ret(R0, "updated", "")
        ELSE IF eu = "ok" THEN
            Ret([r1 EXCEPT
                   !.contacts = PushContact(contacts, mapping.xero_id, c),
                   !.maps = upsert_mapping(mappings,
                               [mapping EXCEPT !.last_synced_at = now,
                                               !.shopify_updated_at = c.updated_at,
                                               !.checksum = new_checksum]),
                   !.errs = clear_error(errors, sid)],
                "updated", "")
        ELSE IF eu = "api_error" THEN
            Ret(r1, "skipped", "Failed to update contact for customer " \o sid)
        ELSE Raise(r1)

\* sync_engine.py 312-402; lk is the outcome of find_contact_by_email, m its
\* first hit, u the outcome of update_contact / create_contact.
create_customer_in_xero(c, checksum, lk, m, u) ==
    LET sid == ToString(c.id)
        doLookup == c.email # ""
        r1 == IF doLookup THEN Call(R0, "lookups", lk) ELSE R0
        found == IF doLookup /\ lk = "ok" THEN m ELSE NoContact
        existing == IF found # NoContact /\ found.status = "ARCHIVED"
                    THEN NoContact ELSE found
    IN  IF doLookup /\ lk = "exc" THEN Raise(r1)
        ELSE IF existing # NoContact THEN
            LET r2 == [r1 EXCEPT
                         !.maps = upsert_mapping(mappings,
                                     NewMapping(c, "customer", existing.id, checksum)),
                         !.errs = clear_error(errors, sid),
                         !.match = "active", !.newId = existing.id]
                r3 == Call(r2, "updates", u)
            IN  IF run.dry_run THEN Ret(r2, "updated", "")
                ELSE IF u = "ok" THEN
                    Ret([r3 EXCEPT !.contacts = PushContact(contacts, existing.id, c)],
                        "updated", "")
                ELSE IF u = "api_error" THEN
                    Ret(r3, "skipped",
                        "Failed to update existing contact for customer " \o sid)
                ELSE Raise(r3)
        ELSE
            LET r2 == [r1 EXCEPT !.match =
                          IF found # NoContact THEN "archived"
                          ELSE IF doLookup /\ lk = "api_error" THEN "lookup_error"
                          ELSE "none"]
                r3 == Call(r2, "creates", u)
            IN  IF run.dry_run THEN Ret(r2, "created", "")
                ELSE IF u = "ok" THEN
                    Ret([r3 EXCEPT
                           !.contacts = contacts \cup
                               {[id |-> nextXeroId, email |-> c.email,
                                 status |-> "ACTIVE", name |-> c.first_name]},
                           !.nx = nextXeroId + 1,
                           !.newId = nextXeroId,
                           !.maps = upsert_mapping(mappings,
                                       NewMapping(c, "customer", nextXeroId, checksum)),
                           !.errs = clear_error(errors, sid)],
                        "created", "")
                ELSE IF u = "api_error" THEN
                    Ret(r3, "skipped", "Failed to create contact for customer " \o sid)
                ELSE Raise(r3)

\* ShopifyClient.update_customer_email_marketing(customer_id,
\* accepts_marketing=True): one request to Shopify that sets the consent of
\* the customer. The consent is no part of what the engine reads, and an
\* exception of the call is logged by the caller and changes nothing.
update_customer_email_marketing(r) == [r EXCEPT !.marketing = @ + 1]

\* sync_engine.py 934-947.
update_customer_email_marketing_in_shopify(r) ==
    IF run.dry_run THEN r ELSE update_customer_email_marketing(r)

\* sync_engine.py 279-310.
sync_single_customer(c, lk, m, u) ==
    LET new_checksum == calculate_customer_checksum(c)
        mapping == get_mapping(mappings, ToString(c.id))
        r == IF mapping # NoMapping THEN
                 IF ~has_changed(mapping.checksum, new_checksum)
                 THEN Ret(R0, "skipped", "")
                 ELSE update_customer_in_xero(c, mapping, new_checksum, u)
             ELSE create_customer_in_xero(c, new_checksum, lk, m, u)
    IN  IF run.enable_email_marketing
        THEN update_customer_email_marketing_in_shopify(r)
        ELSE r

\* ------------------------------------------------------------- product sync
\* update_item(xero_item) with ItemID = id: shopify_product_to_xero_item sets
\* Code, Name, IsSold and IsPurchased.
PushItem(coll, id, p) ==
    {IF k.id = id THEN [k EXCEPT !.code = p.sku, !.name = p.title, !.sold = TRUE]
     ELSE k : k \in coll}

\* sync_engine.py 639-645: IsSold = IsPurchased = False, Name prefixed.
ArchiveItem(coll, id) ==
    {IF k.id = id THEN [k EXCEPT !.sold = FALSE, !.name = "[ARCHIVED] " \o @]
     ELSE k : k \in coll}

\* sync_engine.py 614-704; g is the outcome of get_item_by_id, a of the
\* archiving update_item, u of create_item / update_item.
update_product_in_xero(p, mapping, new_checksum, g, a, u) ==
    LET sid == ToString(p.id)
        r1 == Call(R0, "gets", g)
        current == IF g = "ok" THEN ById(items, NoItem, mapping.xero_id) ELSE NoItem
        updated == [mapping EXCEPT !.last_synced_at = now,
                                   !.shopify_updated_at = p.updated_at,
                                   !.checksum = new_checksum]
    IN  IF g = "exc" THEN Raise(r1)
        ELSE IF current # NoItem /\ current.code # p.sku THEN
            IF run.dry_run THEN Ret([r1 EXCEPT !.match = "sku_changed"], "updated", "")
            ELSE
                LET ea == Effective(a, items, current.id)
                    r2 == [CallOn(r1, "archives", a, items, current.id) EXCEPT
                             !.match = "sku_changed",
                             !.items = IF ea = "ok" THEN ArchiveItem(items, current.id)
                                       ELSE items]
                    r3 == Call(r2, "creates", u)
                IN  IF ea = "exc" THEN Raise(r2)
                    ELSE IF u = "ok" THEN
                        Ret([r3 EXCEPT
                               !.items = r2.items \cup
                                   {[id |-> nextXeroId, code |-> p.sku,
                                     name |-> p.title, sold |-> TRUE]},
                               !.nx = nextXeroId + 1,
                               !.newId = nextXeroId,
                               !.maps = upsert_mapping(mappings,
                                           [updated EXCEPT !.xero_id = nextXeroId]),
                               !.errs = clear_error(errors, sid)],
                            "created", "")
                    ELSE IF u = "api_error" THEN
                        Ret(r3, "skipped", "Failed to create new item after SKU change")
                    ELSE Raise(r3)
        ELSE
            LET eu == Effective(u, items, mapping.xero_id)
                r2 == CallOn(r1, "updates", u, items, mapping.xero_id)
            IN  IF run.dry_run THEN Ret(r1, "updated", "")
                ELSE IF eu = "ok" THEN
                    Ret([r2 EXCEPT
                           !.items = PushItem(items, mapping.xero_id, p),
                           !.maps = upsert_mapping(mappings, updated),
                           !.errs = clear_error(errors, sid)],
                        "updated", "")
                ELSE IF eu = "api_error" THEN
                    Ret(r2, "skipped", "Failed to update item for product " \o sid)
                ELSE Raise(r2)

\* sync_engine.py 535-612; lk is the outcome of find_item_by_code, m its
\* first hit, u the outcome of update_item / create_item.
create_product_in_xero(p, checksum, lk, m, u) ==
    LET sid == ToString(p.id)
        r1 == Call(R0, "lookups", lk)
        existing == IF lk = "ok" THEN m ELSE NoItem
    IN  IF lk = "exc" THEN Raise(r1)
        ELSE IF existing # NoItem THEN
            LET r2 == [r1 EXCEPT
                         !.maps = upsert_mapping(mappings,
                                     NewMapping(p, "product", existing.id, checksum)),
                         !.errs = clear_error(errors, sid),
                         !.match = "active", !.newId = existing.id]
                r3 == Call(r2, "updates", u)
            IN  IF run.dry_run THEN Ret(r2, "updated", "")
                ELSE IF u = "ok" THEN
                    Ret([r3 EXCEPT !.items = PushItem(items, existing.id, p)],
                        "updated", "")
                ELSE IF u = "api_error" THEN
                    Ret(r3, "skipped",
                        "Failed to update existing item for product " \o sid)
                ELSE Raise(r3)
        ELSE
            LET r2 == [r1 EXCEPT !.match = IF lk = "api_error" THEN "lookup_error"
                                           ELSE "none"]
                r3 == Call(r2, "creates", u)
            IN  IF run.dry_run THEN Ret(r2, "created", "")
                ELSE IF u = "ok" THEN
                    Ret([r3 EXCEPT
                           !.items = items \cup
                               {[id |-> nextXeroId, code |-> p.sku,
                                 name |-> p.title, sold |-> TRUE]},
                           !.nx = nextXeroId + 1,
                           !.newId = nextXeroId,
                           !.maps = upsert_mapping(mappings,
                                       NewMapping(p, "product", nextXeroId, checksum)),
                           !.errs = clear_error(errors, sid)],
                        "created", "")
                ELSE IF u = "api_error" THEN
                    Ret(r3, "skipped", "Failed to create item for product " \o sid)
                ELSE Raise(r3)

\* sync_engine.py 501-533; shopify_product_to_xero_item returns None when the
\* primary variant has no SKU.
sync_single_product(p, lk, m, g, a, u) ==
    LET new_checksum == calculate_product_checksum(p)
        mapping == get_mapping(mappings, ToString(p.id))
    IN  IF p.sku = "" THEN Ret(R0, "skipped", "")
        ELSE IF mapping # NoMapping THEN
            IF ~has_changed(mapping.checksum, new_checksum)
            THEN Ret(R0, "skipped", "")
            ELSE update_product_in_xero(p, mapping, new_checksum, g, a, u)
        ELSE create_product_in_xero(p, new_checksum, lk, m, u)

\* --------------------------------------------------------------- order sync
\* sync_engine.py 899-928; ck is the outcome of find_contact_by_email and km
\* its first hit.  Returns the result so far and the contact id (0: None).
get_customer_contact_id(r, o, ck, km) ==
    LET mapping == IF o.customer # 0
                   THEN get_mapping(mappings, ToString(o.customer))
                   ELSE NoMapping
    IN  IF mapping # NoMapping /\ mapping.entity_type = "customer"
        THEN [r |-> r, contact_id |-> mapping.xero_id, raised |-> FALSE]
        ELSE IF o.email # ""
        THEN [r |-> Call(r, "lookups", ck),
              contact_id |-> IF ck = "ok" THEN km.id ELSE 0,
              raised |-> ck = "exc"]
        ELSE [r |-> r, contact_id |-> 0, raised |-> FALSE]

\* sync_engine.py 824-897; lk is the outcome of find_invoice_by_reference, m
\* its first hit, u the outcome of create_invoice.
create_order_in_xero(o, checksum, lk, m, ck, km, u) ==
    LET sid == ToString(o.id)
        r1 == Call(R0, "lookups", lk)
        existing == IF lk = "ok" THEN m ELSE NoInvoice
    IN  IF lk = "exc" THEN Raise(r1)
        ELSE IF existing # NoInvoice THEN
            Ret([r1 EXCEPT
                   !.maps = upsert_mapping(mappings,
                               NewMapping(o, "order", existing.id, checksum)),
                   !.errs = clear_error(errors, sid),
                   !.match = "active", !.newId = existing.id],
                "skipped", "")
        ELSE
            LET c == get_customer_contact_id(
                         [r1 EXCEPT !.match = IF lk = "api_error"
                                              THEN "lookup_error" ELSE "none"],
                         o, ck, km)
                r3 == Call(c.r, "creates", u)
            IN  IF c.raised THEN Raise(c.r)
                ELSE IF c.contact_id = 0 THEN
                    Ret(c.r, "skipped", "No Xero contact found for order " \o sid)
                ELSE IF run.dry_run THEN Ret(c.r, "created", "")
                ELSE IF u = "ok" THEN
                    Ret([r3 EXCEPT
                           !.invoices = invoices \cup
                               {[id |-> nextXeroId,
                                 reference |-> INVOICE_REFERENCE_PREFIX
                                               \o ToString(o.order_number),
                                 contact |-> c.contact_id]},
                           !.nx = nextXeroId + 1,
                           !.newId = nextXeroId,
                           !.maps = upsert_mapping(mappings,
                                       NewMapping(o, "order", nextXeroId, checksum)),
                           !.errs = clear_error(errors, sid)],
                        "created", "")
                ELSE IF u = "api_error" THEN
                    Ret(r3, "skipped", "Failed to create invoice for order " \o sid)
                ELSE Raise(r3)

\* A changed order that is already mapped is skipped without a store write.
sync_single_order_without_store(o, lk, m, ck, km, u) ==
    LET new_checksum == calculate_order_checksum(o)
        mapping == get_mapping(mappings, ToString(o.id))
    IN  IF mapping # NoMapping THEN Ret(R0, "skipped", "")
        ELSE create_order_in_xero(o, new_checksum, lk, m, ck, km, u)

\* sync_engine.py 795-822.
sync_single_order(o, lk, m, ck, km, u) ==
    LET new_checksum == calculate_order_checksum(o)
        mapping == get_mapping(mappings, ToString(o.id))
    IN  IF mapping # NoMapping THEN
            IF ~has_changed(mapping.checksum, new_checksum)
            THEN Ret(R0, "skipped", "")
            ELSE Ret([R0 EXCEPT !.maps = upsert_mapping(mappings,
                                    [mapping EXCEPT !.checksum = new_checksum,
                                                    !.last_synced_at = now])],
                     "skipped", "")
        ELSE create_order_in_xero(o, new_checksum, lk, m, ck, km, u)

\* ------------------------------------------------------------ run controller
Phases == <<"customers", "products", "orders">>
NoResult == [success |-> TRUE, created |-> 0, updated |-> 0, skipped |-> 0,
             errors |-> <<>>]
NoOut == [action |-> "none", fp |-> <<"", "">>, muts |-> 0, failed |-> 0,
          dry |-> FALSE, mapped |-> FALSE, match |-> "none"]
NoLast == [etype |-> "none", id |-> 0, key |-> "", res |-> R0, fp |-> <<"", "">>,
           before |-> NoMapping, item |-> NoItem, dry |-> FALSE, run |-> 0]
\* No source-adapter request yet. attempts counts the HTTP requests sent for
\* the call, transient those of them that ended in a timeout, a connection
\* error or a 429 response.
NoRequest == [client |-> "none", state |-> "none", attempts |-> 0,
              transient |-> 0, raised |-> ""]

\* No batch_update_customer_email_marketing call yet. i is the loop variable,
\* batch the slice under way, pending the positions of it whose task has not
\* ended, results what the tasks of it returned or raised, attempts the
\* number of update calls made per customer id.
NoBulk == [state |-> "none", customer_ids |-> <<>>, batch_size |-> 1, i |-> 0,
           batch |-> <<>>, pending |-> {}, results |-> <<>>,
           attempts |-> [id \in BulkIds |-> 0],
           updated |-> 0, failed |-> 0, errors |-> <<>>,
           result |-> [success |-> FALSE, total |-> 0, updated |-> 0, failed |-> 0]]

\* No checksum has been compared yet.
NoSample == [kind |-> "none", a |-> <<>>, b |-> <<>>,
             data |-> <<"", "">>, checksum |-> <<Sha256(""), Sha256("")>>]

\* No retry_failed_syncs call yet: rows is sync_errors as the call found it,
\* synced the entities it called _sync_single_* for, and etype, sid, res are
\* the row it handled last and what the sync it called for it did.
NoRetry == [max_retries |-> 3, dry |-> FALSE, rows |-> {}, synced |-> {},
            result |-> NoResult, etype |-> "none", sid |-> "", res |-> R0]
Entities == ({"customer"} \X CustomerIds) \cup ({"product"} \X ProductIds)
            \cup ({"order"} \X OrderIds)

\* The record of the last of the earlier runs: it synced the product and
\* failed for customer 2.
EarlierRun == [run_id |-> 0, started_at |-> 0, completed_at |-> 0,
               status |-> "failed", entities_processed |-> 1,
               errors |-> <<"Failed to create contact for customer 2">>]
\* The error row of customer 2, which failed in three earlier runs.
EarlierError == [id |-> 1, entity_type |-> "customer", shopify_id |-> "2",
                 error_message |-> "Failed to create contact for customer 2",
                 occurred_at |-> 0, retry_count |-> 2]

\* The engine before its first run here. earlier tells what came before:
\* "none", the store is fresh; "synced", earlier runs synced the product and
\* failed for customer 2; "sku_reused", earlier runs archived the item of
\* another product after its SKU changed, and the product here, not yet
\* synced, has the SKU that product had.
InitWith(earlier) ==
    /\ customers \in [CustomerIds -> [email : {"a@x.com"}, first_name : {"A"},
                                     updated_at : {0}]]
    /\ products = [i \in ProductIds |-> [sku |-> "OLD", title |-> "T", updated_at |-> 0]]
    /\ orders = [i \in OrderIds |->
                   [order_number |-> 1000 + i, email |-> "a@x.com", customer |-> 1,
                    line_items |-> <<[title |-> "T", quantity |-> 1, price |-> "1.00"]>>,
                    updated_at |-> 0]]
    /\ contacts \in {{}, {[id |-> 1, email |-> "a@x.com", status |-> "ACTIVE", name |-> "A"]},
                         {[id |-> 1, email |-> "a@x.com", status |-> "ARCHIVED", name |-> "A"]}}
    /\ IF earlier = "synced"
          THEN /\ items = {[id |-> 1, code |-> "OLD", name |-> "T", sold |-> TRUE]}
               /\ mappings = {[shopify_id |-> "5", xero_id |-> 1,
                               entity_type |-> "product", last_synced_at |-> 0,
                               shopify_updated_at |-> 0,
                               checksum |-> calculate_product_checksum(
                                               [sku |-> "OLD", title |-> "T"])]}
               /\ history = {EarlierRun}
               /\ errors = {EarlierError}
               /\ nextErrorId = 2
          ELSE /\ items = IF earlier = "sku_reused"
                          THEN {[id |-> 1, code |-> "OLD", name |-> "[ARCHIVED] T",
                                 sold |-> FALSE]}
                          ELSE {}
               /\ mappings = {}
               /\ history = {}
               /\ errors = {}
               /\ nextErrorId = 1
    /\ invoices = {}
    /\ nextXeroId = 2
    /\ now = 1
    /\ pc = "idle"
    /\ run = [id |-> 0, dry_run |-> FALSE, force |-> FALSE,
              enable_email_marketing |-> FALSE]
    /\ queue = <<>>
    /\ stats = [ph \in {"customers", "products", "orders"} |-> NoResult]
    /\ edits = 0
    /\ faults = 0
    /\ last = NoLast
    /\ curOut = [e \in Entities |-> NoOut]
    /\ prevOut = [e \in Entities |-> NoOut]
    /\ retry = NoRetry
    /\ conns = [p \in Processes |-> NoConn]
    /\ request = NoRequest
    /\ bulk = NoBulk
    /\ sample = NoSample

Init == \E earlier \in {"none", "synced"} : InitWith(earlier)

\* sync.py with the settings of its environment; run_full_sync, lines
\* 152-163: db.start_sync_run(run_id).
StartRunWith(dry_run, force, enable_email_marketing) ==
    /\ pc = "idle"
    /\ run.id < MaxRuns
    /\ run' = [id |-> run.id + 1, dry_run |-> dry_run, force |-> force,
               enable_email_marketing |-> enable_email_marketing]
    /\ history' = history \cup {[run_id |-> run.id + 1, started_at |-> now,
                                 completed_at |-> 0, status |-> "running",
                                 entities_processed |-> 0, errors |-> <<>>]}
    /\ now' = now + 1
    /\ pc' = "start"
    /\ stats' = [ph \in DOMAIN stats |-> NoResult]
    /\ prevOut' = curOut
    /\ curOut' = [e \in Entities |-> NoOut]
    /\ UNCHANGED <<sourceVars, remoteVars, storeVars, queue, edits, faults, last,
                   retry, conns, request, bulk, sample>>

\* A run with ENABLE_EMAIL_MARKETING unset: the default, False.
StartRun(dry_run, force) == StartRunWith(dry_run, force, FALSE)

\* The ids 1..n of a table in ascending order, as the adapter yields them.
RECURSIVE Ascending(_)
Ascending(S) ==
    IF S = {} THEN <<>>
    ELSE LET m == CHOOSE x \in S : \A y \in S : x <= y
         IN  <<m>> \o Ascending(S \ {m})

\* fetch_all_*(updated_at_min): updated_at >= updated_at_min, all if None.
Fetched(table) ==
    LET since == IF run.force THEN 0 ELSE get_last_successful_sync
        ids == {i \in DOMAIN table : table[i].updated_at >= since}
        seq == Ascending(ids)
    IN  [k \in 1..Len(seq) |-> [id |-> seq[k]] @@ table[seq[k]]]

\* What a fetch may do: succeed, raise ShopifyAuthError on a 401 response, or
\* raise another exception.
FetchOutcomes == {"ok", "auth", "exc"}
FetchMessage(outcome) ==
    "Fetch failed: " \o (IF outcome = "auth" THEN "Invalid access token" ELSE "exc")

\* A failed fetch ends the run: the later phases are passed over.
Fetch_ending_the_run(from, phase, table, outcome) ==
    /\ pc = from
    /\ queue = <<>>
    /\ IF outcome = "ok"
       THEN /\ pc' = phase
            /\ queue' = Fetched(table)
            /\ UNCHANGED <<stats, faults>>
       ELSE /\ faults < MaxFaults
            /\ faults' = faults + 1
            /\ pc' = "orders"
            /\ queue' = <<>>
            /\ stats' = [stats EXCEPT ![phase].success = FALSE,
                                      ![phase].errors = @ \o <<FetchMessage(outcome)>>]
    /\ UNCHANGED <<sourceVars, remoteVars, storeVars, history, now, run, edits,
                   last, curOut, prevOut, retry, conns, request, bulk, sample>>

\* The next phase starts while entities of the phase before are still queued.
Fetch_before_phase_finished(from, phase, table, outcome) ==
    /\ pc = from
    /\ pc' = phase
    /\ IF outcome = "ok"
       THEN /\ queue' = Fetched(table)
            /\ UNCHANGED <<stats, faults>>
       ELSE /\ faults < MaxFaults
            /\ faults' = faults + 1
            /\ queue' = <<>>
            /\ stats' = [stats EXCEPT ![phase].success = FALSE,
                                      ![phase].errors = @ \o <<FetchMessage(outcome)>>]
    /\ UNCHANGED <<sourceVars, remoteVars, storeVars, history, now, run, edits,
                   last, curOut, prevOut, retry, conns, request, bulk, sample>>

\* sync_customers / sync_products / sync_orders up to the for loop: the fetch
\* succeeds, or raises and the phase ends with "Fetch failed".
Fetch(from, phase, table, outcome) ==
    /\ pc = from
    /\ queue = <<>>
    /\ pc' = phase
    /\ IF outcome = "ok"
       THEN /\ queue' = Fetched(table)
            /\ UNCHANGED <<stats, faults>>
       ELSE /\ faults < MaxFaults
            /\ faults' = faults + 1
            /\ queue' = <<>>
            /\ stats' = [stats EXCEPT ![phase].success = FALSE,
                                      ![phase].errors = @ \o <<FetchMessage(outcome)>>]
    /\ UNCHANGED <<sourceVars, remoteVars, storeVars, history, now, run, edits,
                   last, curOut, prevOut, retry, conns, request, bulk, sample>>

FetchCustomers == \E outcome \in FetchOutcomes : Fetch("start", "customers", customers, outcome)
FetchProducts == \E outcome \in FetchOutcomes : Fetch("customers", "products", products, outcome)
FetchOrders == \E outcome \in FetchOutcomes : Fetch("products", "orders", orders, outcome)

TypeName(etype) ==
    CASE etype = "customer" -> "Customer"
      [] etype = "product" -> "Product"
      [] etype = "order" -> "Order"

\* A failing entity ends the loop: the rest of the queue is dropped.
Finish_stopping_at_failure(phase, etype, e, key, fp, r) ==
    LET sid == ToString(e.id)
        failed == r.exc \/ r.error # ""
        rec == IF failed
               THEN record_error(r.errs, nextErrorId, etype, sid, r.error)
               ELSE [table |-> r.errs, nextId |-> nextErrorId]
        msg == IF r.exc THEN TypeName(etype) \o " " \o sid \o ": " \o r.error
               ELSE r.error
    IN  /\ faults + r.failed <= MaxFaults
        /\ faults' = faults + r.failed
        /\ queue' = IF failed THEN <<>> ELSE Tail(queue)
        /\ mappings' = r.maps
        /\ errors' = rec.table
        /\ nextErrorId' = rec.nextId
        /\ contacts' = r.contacts
        /\ items' = r.items
        /\ invoices' = r.invoices
        /\ nextXeroId' = r.nx
        /\ stats' = IF failed
                    THEN [stats EXCEPT ![phase].errors = @ \o <<msg>>]
                    ELSE IF r.action = "created"
                    THEN [stats EXCEPT ![phase].created = @ + 1]
                    ELSE IF r.action = "updated"
                    THEN [stats EXCEPT ![phase].updated = @ + 1]
                    ELSE [stats EXCEPT ![phase].skipped = @ + 1]
        /\ last' = [etype |-> etype, id |-> e.id, key |-> key, res |-> r, fp |-> fp,
                    before |-> get_mapping(mappings, sid),
                    item |-> ById(items, NoItem, get_mapping(mappings, sid).xero_id),
                    dry |-> run.dry_run, run |-> run.id]
        /\ curOut' = [curOut EXCEPT ![<<etype, e.id>>] =
                         [action |-> IF failed THEN "error" ELSE r.action,
                          fp |-> fp,
                          muts |-> r.creates + r.updates + r.archives,
                          failed |-> r.failed,
                          dry |-> run.dry_run,
                          mapped |-> get_mapping(mappings, sid) # NoMapping,
                          match |-> r.match]]
        /\ UNCHANGED <<sourceVars, history, now, pc, run, edits, prevOut, retry, conns, request, bulk, sample>>

\* The body of the for loop of sync_customers (247-264) and its twins: r is
\* what _sync_single_* did for the head of the queue.
Finish(phase, etype, e, key, fp, r) ==
    LET sid == ToString(e.id)
        failed == r.exc \/ r.error # ""
        rec == IF failed
               THEN record_error(r.errs, nextErrorId, etype, sid, r.error)
               ELSE [table |-> r.errs, nextId |-> nextErrorId]
        msg == IF r.exc THEN TypeName(etype) \o " " \o sid \o ": " \o r.error
               ELSE r.error
    IN  /\ faults + r.failed <= MaxFaults
        /\ faults' = faults + r.failed
        /\ queue' = Tail(queue)
        /\ mappings' = r.maps
        /\ errors' = rec.table
        /\ nextErrorId' = rec.nextId
        /\ contacts' = r.contacts
        /\ items' = r.items
        /\ invoices' = r.invoices
        /\ nextXeroId' = r.nx
        /\ stats' = IF failed
                    THEN [stats EXCEPT ![phase].errors = @ \o <<msg>>]
                    ELSE IF r.action = "created"
                    THEN [stats EXCEPT ![phase].created = @ + 1]
                    ELSE IF r.action = "updated"
                    THEN [stats EXCEPT ![phase].updated = @ + 1]
                    ELSE [stats EXCEPT ![phase].skipped = @ + 1]
        /\ last' = [etype |-> etype, id |-> e.id, key |-> key, res |-> r, fp |-> fp,
                    before |-> get_mapping(mappings, sid),
                    item |-> ById(items, NoItem, get_mapping(mappings, sid).xero_id),
                    dry |-> run.dry_run, run |-> run.id]
        /\ curOut' = [curOut EXCEPT ![<<etype, e.id>>] =
                         [action |-> IF failed THEN "error" ELSE r.action,
                          fp |-> fp,
                          muts |-> r.creates + r.updates + r.archives,
                          failed |-> r.failed,
                          dry |-> run.dry_run,
                          mapped |-> get_mapping(mappings, sid) # NoMapping,
                          match |-> r.match]]
        /\ UNCHANGED <<sourceVars, history, now, pc, run, edits, prevOut, retry, conns, request, bulk, sample>>

\* The outcomes a remote call may still have: a failure needs fault budget.
Avail == IF faults < MaxFaults THEN Outcomes ELSE {"ok"}

SyncCustomer ==
    /\ pc = "customers"
    /\ queue # <<>>
    /\ LET c == Head(queue)
       IN  \E lk \in Avail, u \in Avail :
             \E m \in Hits({k \in contacts : k.email = c.email}, NoContact) :
               Finish("customers", "customer", c, c.email, calculate_customer_checksum(c),
                      sync_single_customer(c, lk, m, u))

SyncProduct ==
    /\ pc = "products"
    /\ queue # <<>>
    /\ LET p == Head(queue)
       IN  \E lk \in Avail, g \in Avail, a \in Avail, u \in Avail :
             \E m \in Hits({k \in items : k.code = p.sku}, NoItem) :
               Finish("products", "product", p, p.sku, calculate_product_checksum(p),
                      sync_single_product(p, lk, m, g, a, u))

SyncOrder ==
    /\ pc = "orders"
    /\ queue # <<>>
    /\ LET o == Head(queue)
           ref == INVOICE_REFERENCE_PREFIX \o ToString(o.order_number)
       IN  \E lk \in Avail, ck \in Avail, u \in Avail :
             \E m \in Hits({k \in invoices : k.reference = ref}, NoInvoice) :
               \E km \in Hits({k \in contacts : k.email = o.email}, NoContact) :
                 Finish("orders", "order", o, ref, calculate_order_checksum(o),
                        sync_single_order(o, lk, m, ck, km, u))

\* run_full_sync, lines 184-193: db.complete_sync_run(...).
TotalErrors == stats["customers"].errors \o stats["products"].errors
               \o stats["orders"].errors
TotalProcessed(st) == st.created + st.updated + st.skipped

CompleteRun ==
    /\ pc = "orders"
    /\ queue = <<>>
    /\ history' = {IF h.run_id = run.id
                   THEN [h EXCEPT !.completed_at = now,
                                  !.status = IF Len(TotalErrors) = 0
                                             THEN "success" ELSE "failed",
                                  !.entities_processed =
                                      TotalProcessed(stats["customers"])
                                      + TotalProcessed(stats["products"])
                                      + TotalProcessed(stats["orders"]),
                                  !.errors = TotalErrors]
                   ELSE h : h \in history}
    /\ now' = now + 1
    /\ pc' = "idle"
    /\ UNCHANGED <<sourceVars, remoteVars, storeVars, run, queue, stats, edits,
                   faults, last, curOut, prevOut, retry, conns, request, bulk, sample>>

\* ------------------------------------------------------- the source changes
Touch ==
    /\ pc = "idle"
    /\ edits < MaxEdits
    /\ edits' = edits + 1
    /\ now' = now + 1
    /\ UNCHANGED <<remoteVars, storeVars, history, pc, run, queue, stats, faults,
                   last, curOut, prevOut, retry, conns, request, bulk, sample>>

EditCustomer ==
    \E id \in CustomerIds :
        /\ customers[id].first_name = "A"
        /\ Touch
        /\ customers' = [customers EXCEPT ![id].first_name = "B",
                                          ![id].updated_at = now]
        /\ UNCHANGED <<products, orders>>

\* The title changes, or the SKU of the primary variant does.
EditProduct ==
    \E id \in ProductIds :
        /\ Touch
        /\ \/ /\ products[id].title = "T"
              /\ products' = [products EXCEPT ![id].title = "T2",
                                              ![id].updated_at = now]
           \/ /\ products[id].sku = "OLD"
              /\ products' = [products EXCEPT ![id].sku = "NEW",
                                              ![id].updated_at = now]
        /\ UNCHANGED <<customers, orders>>

\* The quantity of the line item changes.
EditOrder ==
    \E id \in OrderIds :
        /\ orders[id].line_items[1].quantity = 1
        /\ Touch
        /\ orders' = [orders EXCEPT ![id].line_items[1].quantity = 2,
                                    ![id].updated_at = now]
        /\ UNCHANGED <<customers, products>>

Next ==
    \/ \E dry_run \in BOOLEAN, force \in BOOLEAN : StartRun(dry_run, force)
    \/ FetchCustomers
    \/ SyncCustomer
    \/ FetchProducts
    \/ SyncProduct
    \/ FetchOrders
    \/ SyncOrder
    \/ CompleteRun
    \/ EditCustomer
    \/ EditProduct
    \/ EditOrder

Spec == Init /\ [][Next]_vars

\* ------------------------------------------- direct use of the mapping store
\* Database.delete_mapping called by an operator between two runs.
DeleteMapping ==
    \E id \in CustomerIds \cup OrderIds :
        /\ pc = "idle"
        /\ edits < MaxEdits
        /\ edits' = edits + 1
        /\ mappings' = delete_mapping(mappings, ToString(id))
        /\ UNCHANGED <<sourceVars, remoteVars, errors, nextErrorId, history, now,
                       pc, run, queue, stats, faults, last, curOut, prevOut, retry, conns, request, bulk, sample>>

\* Database.upsert_mapping called by an operator between two runs.
UpsertMapping ==
    \E id \in CustomerIds, etype \in {"customer", "order"} :
        /\ pc = "idle"
        /\ edits < MaxEdits
        /\ edits' = edits + 1
        /\ mappings' = upsert_mapping(mappings,
                          [shopify_id |-> ToString(id), xero_id |-> 1,
                           entity_type |-> etype, last_synced_at |-> now,
                           shopify_updated_at |-> 0,
                           checksum |-> Sha256("manual")])
        /\ UNCHANGED <<sourceVars, remoteVars, errors, nextErrorId, history, now,
                       pc, run, queue, stats, faults, last, curOut, prevOut, retry, conns, request, bulk, sample>>

\* Database.record_error called by an operator between two runs.
RecordError ==
    \E etype \in {"customer", "order"}, id \in CustomerIds :
        /\ pc = "idle"
        /\ edits < MaxEdits
        /\ edits' = edits + 1
        /\ LET rec == record_error(errors, nextErrorId, etype, ToString(id), "manual")
           IN  errors' = rec.table /\ nextErrorId' = rec.nextId
        /\ UNCHANGED <<sourceVars, remoteVars, mappings, history, now,
                       pc, run, queue, stats, faults, last, curOut, prevOut, retry, conns, request, bulk, sample>>

StoreNext == Next \/ DeleteMapping \/ UpsertMapping \/ RecordError

StoreSpec == Init /\ [][StoreNext]_vars

\* ------------------------------------------- a run that does not come to its end
\* run_full_sync is cancelled at one of its awaits (KeyboardInterrupt or
\* asyncio.CancelledError): neither is an Exception, so the except clause of
\* lines 203-212 is passed over and the exception leaves run_full_sync.
Interrupt ==
    /\ pc \in {"start", "customers", "products", "orders"}
    /\ faults < MaxFaults
    /\ faults' = faults + 1
    /\ pc' = "idle"
    /\ queue' = <<>>
    /\ UNCHANGED <<sourceVars, remoteVars, storeVars, history, now, run, stats,
                   edits, last, curOut, prevOut, retry, conns, request, bulk, sample>>

\* run_full_sync, lines 184-212: complete_sync_run raises (the transaction is
\* rolled back), the except clause calls it again with status failed and the
\* message of the exception, and raises; the second call may raise as well.
CompleteRunFailing ==
    /\ pc = "orders"
    /\ queue = <<>>
    /\ faults < MaxFaults
    /\ \E second \in (IF faults + 1 < MaxFaults THEN {"ok", "exc"} ELSE {"ok"}) :
          /\ faults' = faults + (IF second = "ok" THEN 1 ELSE 2)
          /\ history' = IF second = "ok"
                        THEN {IF h.run_id = run.id
                              THEN [h EXCEPT !.completed_at = now,
                                             !.status = "failed",
                                             !.entities_processed = 0,
                                             !.errors = <<"exc">>]
                              ELSE h : h \in history}
                        ELSE history
    /\ now' = now + 1
    /\ pc' = "idle"
    /\ UNCHANGED <<sourceVars, remoteVars, storeVars, run, queue, stats, edits,
                   last, curOut, prevOut, retry, conns, request, bulk, sample>>

LifecycleNext == Next \/ Interrupt \/ CompleteRunFailing

LifecycleSpec == Init /\ [][LifecycleNext]_vars

\* ---------------------------------------------------------------- retry mode
\* sync.py --retry: settings are loaded anew, max_retries is 3 by default and
\* at least 1. retry_failed_syncs, lines 1076-1084. The call counts as a run
\* of sync.py.
StartRetry(dry_run, max_retries) ==
    /\ pc = "idle"
    /\ run.id < MaxRuns
    /\ run' = [run EXCEPT !.id = @ + 1, !.dry_run = dry_run]
    /\ queue' = get_errors(errors, max_retries)
    /\ pc' = "retry"
    /\ retry' = [NoRetry EXCEPT !.max_retries = max_retries, !.dry = dry_run,
                                !.rows = errors]
    /\ UNCHANGED <<sourceVars, remoteVars, storeVars, history, now, stats, edits,
                   faults, last, curOut, prevOut, conns, request, bulk, sample>>

\* _update_retry_result, lines 1122-1136.
update_retry_result(result, action, error) ==
    IF error # "" THEN [result EXCEPT !.errors = @ \o <<error>>]
    ELSE IF action = "created" THEN [result EXCEPT !.created = @ + 1]
    ELSE IF action = "updated" THEN [result EXCEPT !.updated = @ + 1]
    ELSE IF action = "skipped" THEN [result EXCEPT !.skipped = @ + 1]
    ELSE result

RetryMessage(error, e) ==
    "Retry failed for " \o error.entity_type \o " " \o error.shopify_id \o ": " \o e

\* The body of the for loop of retry_failed_syncs for a customer row, lines
\* 1088-1095 and 1109-1112: g is the outcome of shopify.get_customer.
RetryCustomer ==
    /\ pc = "retry"
    /\ queue # <<>>
    /\ Head(queue).entity_type = "customer"
    /\ LET error == Head(queue)
           ids == {i \in DOMAIN customers : ToString(i) = error.shopify_id}
       IN  \E g \in Avail \ {"api_error"}, lk \in Avail, u \in Avail :
             IF g = "exc" THEN
                 /\ faults' = faults + 1
                 /\ retry' = [retry EXCEPT
                                !.result.errors = @ \o <<RetryMessage(error, "exc")>>,
                                !.etype = "customer", !.sid = error.shopify_id,
                                !.res = R0]
                 /\ UNCHANGED <<remoteVars, storeVars>>
             ELSE IF ids = {} THEN
                 /\ errors' = clear_error(errors, error.shopify_id)
                 /\ retry' = [retry EXCEPT
                                !.result.skipped = @ + 1,
                                !.etype = "customer", !.sid = error.shopify_id,
                                !.res = R0]
                 /\ UNCHANGED <<remoteVars, mappings, nextErrorId, faults>>
             ELSE
                 \E id \in ids :
                   \E m \in Hits({k \in contacts : k.email = customers[id].email},
                                 NoContact) :
                     LET r == sync_single_customer([id |-> id] @@ customers[id],
                                                   lk, m, u)
                     IN  /\ faults + r.failed <= MaxFaults
                         /\ faults' = faults + r.failed
                         /\ mappings' = r.maps
                         /\ errors' = r.errs
                         /\ contacts' = r.contacts
                         /\ nextXeroId' = r.nx
                         /\ retry' = [retry EXCEPT
                                        !.result =
                                            IF r.exc
                                            THEN [@ EXCEPT !.errors =
                                                    @ \o <<RetryMessage(error, r.error)>>]
                                            ELSE update_retry_result(@, r.action, r.error),
                                        !.synced = @ \cup {<<"customer", error.shopify_id>>},
                                        !.etype = "customer",
                                        !.sid = error.shopify_id,
                                        !.res = r]
                         /\ UNCHANGED <<items, invoices, nextErrorId>>
    /\ queue' = Tail(queue)
    /\ UNCHANGED <<sourceVars, history, now, pc, run, stats, edits, last, curOut,
                   prevOut, conns, request, bulk, sample>>

\* The same for a product or an order row, lines 1097-1112: the error is
\* cleared; for a product, after shopify.fetch_products(limit=1), whose
\* outcome is g.
RetryOther ==
    /\ pc = "retry"
    /\ queue # <<>>
    /\ Head(queue).entity_type \in {"product", "order"}
    /\ LET error == Head(queue)
       IN  \E g \in (IF error.entity_type = "product" THEN Avail \ {"api_error"}
                     ELSE {"ok"}) :
             IF g = "exc" THEN
                 /\ faults' = faults + 1
                 /\ retry' = [retry EXCEPT
                                !.result.errors = @ \o <<RetryMessage(error, "exc")>>,
                                !.etype = error.entity_type,
                                !.sid = error.shopify_id, !.res = R0]
                 /\ UNCHANGED errors
             ELSE
                 /\ errors' = clear_error(errors, error.shopify_id)
                 /\ retry' = [retry EXCEPT
                                !.result.skipped = @ + 1,
                                !.etype = error.entity_type,
                                !.sid = error.shopify_id, !.res = R0]
                 /\ UNCHANGED faults
    /\ queue' = Tail(queue)
    /\ UNCHANGED <<sourceVars, remoteVars, mappings, nextErrorId, history, now, pc,
                   run, stats, edits, last, curOut, prevOut, conns, request, bulk, sample>>

\* retry_failed_syncs returns, lines 1114-1120.
EndRetry ==
    /\ pc = "retry"
    /\ queue = <<>>
    /\ pc' = "idle"
    /\ UNCHANGED <<sourceVars, remoteVars, storeVars, history, now, run, queue,
                   stats, edits, faults, last, curOut, prevOut, retry, conns, request, bulk, sample>>

RetryNext ==
    \/ Next
    \/ \E dry_run \in BOOLEAN, max_retries \in MaxRetriesValues :
          StartRetry(dry_run, max_retries)
    \/ RetryCustomer
    \/ RetryOther
    \/ EndRetry

RetrySpec == Init /\ [][RetryNext]_vars

\* ------------------------------------------ two processes sharing the store
\* Each statement is atomic (SQLite's file lock); sqlite3 opens the
\* transaction of _get_connection before the first INSERT or UPDATE, so the
\* SELECT of record_error runs before it and holds no lock once it returned.

\* Process p enters record_error and runs the SELECT.
RecordErrorSelect(p) ==
    \E etype \in {"customer", "order"}, id \in CustomerIds :
        /\ pc = "idle"
        /\ conns[p].pc = "closed"
        /\ conns[p].calls < MaxCalls
        /\ conns' = [conns EXCEPT ![p] =
                        [pc |-> "selected", calls |-> conns[p].calls + 1,
                         existing |-> record_error_select(errors, etype, ToString(id)),
                         entity_type |-> etype, shopify_id |-> ToString(id),
                         error_message |-> "exc"]]
        /\ UNCHANGED <<sourceVars, remoteVars, mappings, errors, nextErrorId,
                       history, now, pc, run, queue, stats, edits, faults, last,
                       curOut, prevOut, retry, request, bulk, sample>>

\* Process p runs the UPDATE or the INSERT and commits.
RecordErrorWrite(p) ==
    /\ conns[p].pc = "selected"
    /\ LET c == conns[p]
           rec == record_error_write(errors, nextErrorId, c.existing,
                                     c.entity_type, c.shopify_id, c.error_message)
       IN  errors' = rec.table /\ nextErrorId' = rec.nextId
    /\ conns' = [conns EXCEPT ![p] = [NoConn EXCEPT !.calls = conns[p].calls]]
    /\ UNCHANGED <<sourceVars, remoteVars, mappings, history, now, pc, run, queue,
                   stats, edits, faults, last, curOut, prevOut, retry, request, bulk, sample>>

\* Process p calls upsert_mapping: one INSERT ... ON CONFLICT statement.
UpsertMappingBy(p) ==
    \E etype \in {"customer", "order"}, id \in CustomerIds :
        /\ pc = "idle"
        /\ conns[p].pc = "closed"
        /\ conns[p].calls < MaxCalls
        /\ conns' = [conns EXCEPT ![p].calls = @ + 1]
        /\ mappings' = upsert_mapping(mappings,
                          [shopify_id |-> ToString(id), xero_id |-> p,
                           entity_type |-> etype, last_synced_at |-> now,
                           shopify_updated_at |-> 0,
                           checksum |-> Sha256("manual")])
        /\ UNCHANGED <<sourceVars, remoteVars, errors, nextErrorId, history, now,
                       pc, run, queue, stats, edits, faults, last, curOut,
                       prevOut, retry, request, bulk, sample>>

ConcurrentNext ==
    \E p \in Processes :
        \/ RecordErrorSelect(p)
        \/ RecordErrorWrite(p)
        \/ UpsertMappingBy(p)

ConcurrentSpec == Init /\ [][ConcurrentNext]_vars

\* --------------------------------------------------------------- exit status
\* run_sync, lines 149-169: result = stats.customers; the status is 1 when
\* result.errors is not empty and 0 otherwise.
run_sync_exit == IF Len(stats["customers"].errors) > 0 THEN 1 ELSE 0

\* ------------------------------------------- ENABLE_EMAIL_MARKETING is set
StartRunMarketing(dry_run, force) == StartRunWith(dry_run, force, TRUE)

MarketingNext ==
    \/ Next
    \/ \E dry_run \in BOOLEAN, force \in BOOLEAN : StartRunMarketing(dry_run, force)

MarketingSpec == Init /\ [][MarketingNext]_vars

\* ------------------------------------------- a SKU that an archived item has
ReuseInit == InitWith("sku_reused")

ReuseSpec == ReuseInit /\ [][Next]_vars

\* ------------------------------------------------- one source-adapter request
\* SHOPIFY_API_TYPE: ShopifyClient or ShopifyGraphQLClient (sync.py 110-115).
Clients == {"rest", "graphql"}
\* What one HTTP request of the adapter may end in.
Responses == {"200", "429", "timeout", "connection_error", "500"}
Transient == {"429", "timeout", "connection_error"}
\* ShopifyClient._request, retries: int = 3.
retries == 3

\* _request or _query is called.
StartRequest(client) ==
    /\ pc = "idle"
    /\ request.state # "sending"
    /\ request' = [NoRequest EXCEPT !.client = client, !.state = "sending"]
    /\ UNCHANGED <<sourceVars, remoteVars, storeVars, history, now, pc, run, queue,
                   stats, edits, faults, last, curOut, prevOut, retry, conns, bulk, sample>>

\* ShopifyClient._request, lines 132-182: one pass of for attempt in
\* range(retries). A 429 response continues with the next pass; a timeout or
\* a connection error does so unless the pass is the last one; the loop left,
\* ShopifyRateLimitError is raised.
rest_attempt(req, response) ==
    LET attempt == req.attempts
        sent == [req EXCEPT !.attempts = @ + 1,
                            !.transient = IF response \in Transient THEN @ + 1 ELSE @]
    IN  IF response = "200" THEN [sent EXCEPT !.state = "returned"]
        ELSE IF response = "429" THEN
            IF attempt + 1 < retries THEN sent
            ELSE [sent EXCEPT !.state = "raised", !.raised = "ShopifyRateLimitError"]
        ELSE IF response \in {"timeout", "connection_error"} THEN
            IF attempt < retries - 1 THEN sent
            ELSE [sent EXCEPT !.state = "raised", !.raised = "ShopifyAPIError"]
        ELSE [sent EXCEPT !.state = "raised", !.raised = "ShopifyAPIError"]

\* ShopifyGraphQLClient._query, lines 82-122: one POST. A 429 response is
\* followed by return await self._query(query, variables); httpx.HTTPError
\* (timeout, connection error, raise_for_status) raises ShopifyGraphQLError.
graphql_attempt(req, response) ==
    LET sent == [req EXCEPT !.attempts = @ + 1,
                            !.transient = IF response \in Transient THEN @ + 1 ELSE @]
    IN  IF response = "200" THEN [sent EXCEPT !.state = "returned"]
        ELSE IF response = "429" THEN sent
        ELSE [sent EXCEPT !.state = "raised", !.raised = "ShopifyGraphQLError"]

\* The adapter sends the request once more and handles the response.
Attempt ==
    \E response \in Responses :
        /\ request.state = "sending"
        /\ request.attempts < MaxAttempts
        /\ request' = IF request.client = "rest"
                      THEN rest_attempt(request, response)
                      ELSE graphql_attempt(request, response)
        /\ UNCHANGED <<sourceVars, remoteVars, storeVars, history, now, pc, run, queue,
                       stats, edits, faults, last, curOut, prevOut, retry, conns, bulk, sample>>

RequestNext ==
    \/ \E client \in Clients : StartRequest(client)
    \/ Attempt

RequestSpec == Init /\ [][RequestNext]_vars

\* ------------------------------------------- the bulk marketing-consent job
\* The lists of distinct customer ids of length 0..MaxBulk.
IdLists ==
    UNION {{l \in [1..n -> BulkIds] : \A a, b \in 1..n : l[a] = l[b] => a = b}
           : n \in 0..MaxBulk}
BatchSizes == {1, 2}
\* What _update_single_customer may do: return True, return False, raise.
UpdateResults == {"true", "false", "exc"}

\* customer_ids[i:i + batch_size], i counted from 0.
Slice(l, i, n) ==
    [k \in 1..(IF i + n <= Len(l) THEN n ELSE Len(l) - i) |-> l[i + k]]

\* batch_update_customer_email_marketing, lines 176-182.
StartBulk(customer_ids, batch_size) ==
    /\ pc = "idle"
    /\ bulk.state = "none"
    /\ bulk' = [NoBulk EXCEPT !.state = "batching", !.customer_ids = customer_ids,
                              !.batch_size = batch_size]
    /\ UNCHANGED <<sourceVars, remoteVars, storeVars, history, now, pc, run, queue,
                   stats, edits, faults, last, curOut, prevOut, retry, conns,
                   request, sample>>

\* Lines 185-193 and _process_batch, lines 241-248: the next slice is taken
\* and one task per customer id of it is created and handed to gather.
StartBatch ==
    /\ bulk.state = "batching"
    /\ bulk.i < Len(bulk.customer_ids)
    /\ LET batch == Slice(bulk.customer_ids, bulk.i, bulk.batch_size)
       IN  bulk' = [bulk EXCEPT !.state = "gathering", !.batch = batch,
                                !.pending = DOMAIN batch,
                                !.results = [k \in DOMAIN batch |-> "none"]]
    /\ UNCHANGED <<sourceVars, remoteVars, storeVars, history, now, pc, run, queue,
                   stats, edits, faults, last, curOut, prevOut, retry, conns,
                   request, sample>>

\* _update_single_customer, lines 271-293: one of the tasks of the batch,
\* in whatever order the event loop takes them, calls the client and ends.
UpdateSingleCustomer ==
    \E k \in bulk.pending, result \in UpdateResults :
        /\ bulk.state = "gathering"
        /\ bulk' = [bulk EXCEPT !.pending = @ \ {k},
                                !.results[k] = result,
                                !.attempts[bulk.batch[k]] = @ + 1]
        /\ UNCHANGED <<sourceVars, remoteVars, storeVars, history, now, pc, run,
                       queue, stats, edits, faults, last, curOut, prevOut, retry,
                       conns, request, sample>>

\* _process_batch, lines 250-268: the results are counted in list order.
RECURSIVE ProcessResults(_, _, _)
ProcessResults(batch, results, k) ==
    IF k > Len(batch) THEN [updated |-> 0, failed |-> 0, errors |-> <<>>]
    ELSE LET rest == ProcessResults(batch, results, k + 1)
             id == ToString(batch[k])
         IN  IF results[k] = "exc"
             THEN [rest EXCEPT !.failed = @ + 1,
                               !.errors = <<"Customer " \o id \o ": exc">> \o @]
             ELSE IF results[k] = "true"
             THEN [rest EXCEPT !.updated = @ + 1]
             ELSE [rest EXCEPT !.failed = @ + 1,
                               !.errors = <<"Customer " \o id
                                            \o ": Update returned False">> \o @]

\* A batch with a failed update ends the job.
EndBatch_stopping_after_failure ==
    /\ bulk.state = "gathering"
    /\ bulk.pending = {}
    /\ LET batch_results == ProcessResults(bulk.batch, bulk.results, 1)
       IN  bulk' = [bulk EXCEPT !.state = "batching",
                                !.updated = @ + batch_results.updated,
                                !.failed = @ + batch_results.failed,
                                !.errors = @ \o batch_results.errors,
                                !.i = IF batch_results.failed > 0
                                      THEN Len(bulk.customer_ids)
                                      ELSE @ + bulk.batch_size]
    /\ UNCHANGED <<sourceVars, remoteVars, storeVars, history, now, pc, run, queue,
                   stats, edits, faults, last, curOut, prevOut, retry, conns,
                   request, sample>>

\* Lines 193-205: gather has returned; the counts of the batch are added and
\* the loop goes on with i + batch_size.
EndBatch ==
    /\ bulk.state = "gathering"
    /\ bulk.pending = {}
    /\ LET batch_results == ProcessResults(bulk.batch, bulk.results, 1)
       IN  bulk' = [bulk EXCEPT !.state = "batching",
                                !.updated = @ + batch_results.updated,
                                !.failed = @ + batch_results.failed,
                                !.errors = @ \o batch_results.errors,
                                !.i = @ + bulk.batch_size]
    /\ UNCHANGED <<sourceVars, remoteVars, storeVars, history, now, pc, run, queue,
                   stats, edits, faults, last, curOut, prevOut, retry, conns,
                   request, sample>>

\* Lines 207-222: the loop has ended and the result is returned.
EndBulk ==
    /\ bulk.state = "batching"
    /\ bulk.i >= Len(bulk.customer_ids)
    /\ bulk' = [bulk EXCEPT !.state = "done",
                            !.result = [success |-> bulk.failed = 0,
                                        total |-> Len(bulk.customer_ids),
                                        updated |-> bulk.updated,
                                        failed |-> bulk.failed]]
    /\ UNCHANGED <<sourceVars, remoteVars, storeVars, history, now, pc, run, queue,
                   stats, edits, faults, last, curOut, prevOut, retry, conns,
                   request, sample>>

BulkNext ==
    \/ \E customer_ids \in IdLists, batch_size \in BatchSizes :
          StartBulk(customer_ids, batch_size)
    \/ StartBatch
    \/ UpdateSingleCustomer
    \/ EndBatch
    \/ EndBulk

BulkSpec == Init /\ [][BulkNext]_vars

\* ------------------------------------------- checksums of any two entities
\* customer.default_address: None, or an address; None and "" are one value
\* here, as every field is read with "or ''".
NoAddress == [present |-> FALSE, address1 |-> "", address2 |-> "", city |-> "",
              province |-> "", zip |-> "", country |-> "", phone |-> ""]
SampleAddresses ==
    {NoAddress} \cup [present : {TRUE}, address1 : {"S"}, address2 : {""},
                      city : {""}, province : {""}, zip : {""}, country : {""},
                      phone : {"", "1"}]
SampleCustomers ==
    [id : {1, 2}, email : {"e"}, first_name : {"A", "A|"}, last_name : {"B", "|B"},
     phone : {"", "1"}, default_address : SampleAddresses]
\* product.primary_variant: None, or the first variant.
SampleVariants ==
    {[present |-> FALSE, price |-> "", sku |-> ""]}
    \cup [present : {TRUE}, price : {"1.00"}, sku : {"OLD", "NEW"}]
SampleProducts ==
    [id : {5, 6}, title : {"T", "T|"}, vendor : {"", "|"}, product_type : {""},
     variant : SampleVariants]
SampleLineItems ==
    [title : {"a", "b", "a:1:1.00;b"}, quantity : {1}, price : {"1.00"}]
SampleOrders ==
    [id : {1, 3}, order_number : {1001}, total_price : {"1.00", "2.00"},
     subtotal_price : {"0.00"}, total_tax : {"0.00"}, financial_status : {"paid"},
     email : {"e"},
     line_items : {<<l>> : l \in SampleLineItems}
                  \cup {<<l1, l2>> : l1 \in SampleLineItems, l2 \in SampleLineItems}]

\* calculate_customer_checksum, lines 28-53: the string that is hashed.
customer_checksum_data(customer) ==
    LET addr == customer.default_address
        address_parts == IF addr.present
                         THEN <<addr.address1, addr.address2, addr.city,
                                addr.province, addr.zip, addr.country>>
                         ELSE <<>>
        phone == IF customer.phone # "" THEN customer.phone
                 ELSE IF addr.present THEN addr.phone ELSE ""
    IN  Join("|", <<customer.email, customer.first_name, customer.last_name, phone>>
                  \o address_parts)

\* calculate_product_checksum, lines 72-83.
product_checksum_data(product) ==
    LET variant == product.variant
    IN  Join("|", <<product.title, product.vendor, product.product_type,
                    IF variant.present THEN variant.price ELSE "",
                    IF variant.present THEN variant.sku ELSE "">>)

\* calculate_order_checksum, lines 103-118.
order_checksum_data(order) ==
    Join("|", <<ToString(order.order_number), order.total_price,
                order.subtotal_price, order.total_tax, order.financial_status,
                order.email, Join(";", LineItemsData(order.line_items))>>)

\* The checksums of two entities of one type are computed.
Checksums(kind, a, b, da, db) ==
    /\ pc = "idle"
    /\ sample = NoSample
    /\ sample' = [kind |-> kind, a |-> a, b |-> b, data |-> <<da, db>>,
                  checksum |-> <<Sha256(da), Sha256(db)>>]
    /\ UNCHANGED <<sourceVars, remoteVars, storeVars, history, now, pc, run, queue,
                   stats, edits, faults, last, curOut, prevOut, retry, conns,
                   request, bulk>>

CustomerChecksums ==
    \E a \in SampleCustomers, b \in SampleCustomers :
        Checksums("customer", a, b, customer_checksum_data(a), customer_checksum_data(b))
ProductChecksums ==
    \E a \in SampleProducts, b \in SampleProducts :
        Checksums("product", a, b, product_checksum_data(a), product_checksum_data(b))
OrderChecksums ==
    \E a \in SampleOrders, b \in SampleOrders :
        Checksums("order", a, b, order_checksum_data(a), order_checksum_data(b))

ChecksumNext ==
    \/ CustomerChecksums
    \/ ProductChecksums
    \/ OrderChecksums

ChecksumSpec == Init /\ [][ChecksumNext]_vars

\* ------------------------------ the source changes while a run is under way
\* The shop goes on being edited while run_full_sync runs: updated_at of the
\* edit lies between started_at and completed_at of the run.
TouchDuringRun ==
    /\ pc \in {"start", "customers", "products", "orders"}
    /\ edits < MaxEdits
    /\ edits' = edits + 1
    /\ now' = now + 1
    /\ UNCHANGED <<remoteVars, storeVars, history, pc, run, queue, stats, faults,
                   last, curOut, prevOut, retry, conns, request, bulk, sample>>

EditCustomerDuringRun ==
    \E id \in CustomerIds :
        /\ customers[id].first_name = "A"
        /\ TouchDuringRun
        /\ customers' = [customers EXCEPT ![id].first_name = "B",
                                          ![id].updated_at = now]
        /\ UNCHANGED <<products, orders>>

EditProductDuringRun ==
    \E id \in ProductIds :
        /\ products[id].title = "T"
        /\ TouchDuringRun
        /\ products' = [products EXCEPT ![id].title = "T2",
                                        ![id].updated_at = now]
        /\ UNCHANGED <<customers, orders>>

EditOrderDuringRun ==
    \E id \in OrderIds :
        /\ orders[id].line_items[1].quantity = 1
        /\ TouchDuringRun
        /\ orders' = [orders EXCEPT ![id].line_items[1].quantity = 2,
                                    ![id].updated_at = now]
        /\ UNCHANGED <<customers, products>>

OverlapNext ==
    \/ Next
    \/ EditCustomerDuringRun
    \/ EditProductDuringRun
    \/ EditOrderDuringRun

OverlapSpec == Init /\ [][OverlapNext]_vars

\* ------------------------------------- retry mode invoked again and again
\* sync.py --retry run over and over (a cron job), with the default
\* max_retries; a remote call may fail in any of the invocations.
RetryAgain ==
    /\ pc = "idle"
    /\ queue' = get_errors(errors, NoRetry.max_retries)
    /\ pc' = "retry"
    /\ retry' = [NoRetry EXCEPT !.rows = errors]
    /\ UNCHANGED <<sourceVars, remoteVars, storeVars, history, now, run, stats,
                   edits, faults, last, curOut, prevOut, conns, request, bulk, sample>>

\* Lines 1088-1095 and 1109-1112, as RetryCustomer.
RetryCustomerAgain ==
    /\ pc = "retry"
    /\ queue # <<>>
    /\ Head(queue).entity_type = "customer"
    /\ LET error == Head(queue)
           ids == {i \in DOMAIN customers : ToString(i) = error.shopify_id}
       IN  \E g \in {"ok", "exc"}, lk \in Outcomes, u \in Outcomes :
             IF g = "exc" THEN
                 /\ retry' = [retry EXCEPT
                                !.result.errors = @ \o <<RetryMessage(error, "exc")>>,
                                !.etype = "customer", !.sid = error.shopify_id,
                                !.res = R0]
                 /\ UNCHANGED <<remoteVars, storeVars>>
             ELSE IF ids = {} THEN
                 /\ errors' = clear_error(errors, error.shopify_id)
                 /\ retry' = [retry EXCEPT
                                !.result.skipped = @ + 1,
                                !.etype = "customer", !.sid = error.shopify_id,
                                !.res = R0]
                 /\ UNCHANGED <<remoteVars, mappings, nextErrorId>>
             ELSE
                 \E id \in ids :
                   \E m \in Hits({k \in contacts : k.email = customers[id].email},
                                 NoContact) :
                     LET r == sync_single_customer([id |-> id] @@ customers[id],
                                                   lk, m, u)
                     IN  /\ mappings' = r.maps
                         /\ errors' = r.errs
                         /\ contacts' = r.contacts
                         /\ nextXeroId' = r.nx
                         /\ retry' = [retry EXCEPT
                                        !.result =
                                            IF r.exc
                                            THEN [@ EXCEPT !.errors =
                                                    @ \o <<RetryMessage(error, r.error)>>]
                                            ELSE update_retry_result(@, r.action, r.error),
                                        !.synced = @ \cup {<<"customer", error.shopify_id>>},
                                        !.etype = "customer",
                                        !.sid = error.shopify_id,
                                        !.res = r]
                         /\ UNCHANGED <<items, invoices, nextErrorId>>
    /\ queue' = Tail(queue)
    /\ UNCHANGED <<sourceVars, history, now, pc, run, stats, edits, faults, last,
                   curOut, prevOut, conns, request, bulk, sample>>

\* Lines 1097-1112, as RetryOther.
RetryOtherAgain ==
    /\ pc = "retry"
    /\ queue # <<>>
    /\ Head(queue).entity_type \in {"product", "order"}
    /\ LET error == Head(queue)
       IN  \E g \in (IF error.entity_type = "product" THEN {"ok", "exc"} ELSE {"ok"}) :
             IF g = "exc" THEN
                 /\ retry' = [retry EXCEPT
                                !.result.errors = @ \o <<RetryMessage(error, "exc")>>,
                                !.etype = error.entity_type,
                                !.sid = error.shopify_id, !.res = R0]
                 /\ UNCHANGED errors
             ELSE
                 /\ errors' = clear_error(errors, error.shopify_id)
                 /\ retry' = [retry EXCEPT
                                !.result.skipped = @ + 1,
                                !.etype = error.entity_type,
                                !.sid = error.shopify_id, !.res = R0]
    /\ queue' = Tail(queue)
    /\ UNCHANGED <<sourceVars, remoteVars, mappings, nextErrorId, history, now, pc,
                   run, stats, edits, faults, last, curOut, prevOut, conns, request,
                   bulk, sample>>

ProgressNext ==
    \/ RetryAgain
    \/ RetryCustomerAgain
    \/ RetryOtherAgain
    \/ EndRetry
    \/ RecordError
    \/ EditCustomer

\* Every invocation runs to its end and another one follows.
ProgressSpec ==
    /\ Init
    /\ [][ProgressNext]_vars
    /\ WF_vars(RetryAgain)
    /\ WF_vars(RetryCustomerAgain \/ RetryOtherAgain)
    /\ WF_vars(EndRetry)

\* ============================================================ properties
Processed(out) == out.action # "none"
LastSid == ToString(last.id)
LastMapping == get_mapping(mappings, LastSid)
LastHasError ==
    \E r \in errors : r.entity_type = last.etype /\ r.shopify_id = LastSid
Synced(etype) == last.etype = etype
Failed(outcome) == outcome \in {"api_error", "exc"}
\* Records the engine created: the destination held only ids below 2 before.
EngineCreated(coll) == {k \in coll : k.id > 1}

\* C1 -- Idempotence: an entity whose content is the same in two consecutive
\* non-dry-run runs and that the first run recorded as created or updated is
\* recorded as skipped by the second run, which issues no create, update or
\* archive call for it.
C1_Idempotence ==
    \A e \in Entities :
        (/\ Processed(prevOut[e]) /\ Processed(curOut[e])
         /\ ~prevOut[e].dry /\ ~curOut[e].dry
         /\ prevOut[e].action \in {"created", "updated"}
         /\ prevOut[e].fp = curOut[e].fp)
        => (curOut[e].action = "skipped" /\ curOut[e].muts = 0)

\* C2 -- No duplicates: the engine creates at most one destination record per
\* natural key (email, code, reference), and none for an email the destination
\* already held on an active contact before the first run.
C2_NoDuplicate ==
    /\ \A k1, k2 \in EngineCreated(contacts) :
          (k1.email # "" /\ k1.email = k2.email) => k1 = k2
    /\ \A k1, k2 \in EngineCreated(items) : k1.code = k2.code => k1 = k2
    /\ \A k1, k2 \in EngineCreated(invoices) : k1.reference = k2.reference => k1 = k2
    /\ \A k \in contacts, n \in EngineCreated(contacts) :
          (k.id = 1 /\ k.status = "ACTIVE") => n.email # k.email

\* C3 -- Mapping uniqueness: after any sequence of upsert, delete and sync
\* operations the table holds at most one mapping row per shopify_id.
C3_MappingUnique ==
    \A r1, r2 \in mappings : r1.shopify_id = r2.shopify_id => r1 = r2

\* A second write for a shopify_id that already has a row has happened.
C3_Witness ==
    /\ Synced("order")
    /\ last.before # NoMapping
    /\ LastMapping.checksum = last.fp
    /\ LastMapping.checksum # last.before.checksum

\* C4 -- A failed update of a changed, mapped customer or product records an
\* error for the entity and leaves its mapping row as it was, so the stored
\* checksum still differs from the entity's and the next run updates again.
C4_FailedUpdateKeepsMapping ==
    (/\ last.etype \in {"customer", "product"}
     /\ last.before # NoMapping
     /\ has_changed(last.before.checksum, last.fp)
     /\ Failed(last.res.out.updates))
    => (/\ LastHasError
        /\ LastMapping = last.before
        /\ has_changed(LastMapping.checksum, last.fp))

C4_Witness ==
    /\ Synced("customer")
    /\ last.before.entity_type = "customer"
    /\ has_changed(last.before.checksum, last.fp)
    /\ last.res.out.updates = "api_error"
    /\ LastHasError

\* C5 -- A failed create of a new entity (no mapping, no destination match)
\* records an error and writes no mapping row.
C5_FailedCreateWritesNoMapping ==
    (/\ last.etype \in EntityTypes
     /\ last.before = NoMapping
     /\ last.res.match = "none"
     /\ Failed(last.res.out.creates))
    => (LastHasError /\ LastMapping = NoMapping)

C5_Witness ==
    /\ Synced("order")
    /\ last.before = NoMapping
    /\ last.res.match = "none"
    /\ last.res.out.creates = "api_error"
    /\ LastHasError

\* The link case of scenario B: a customer without mapping whose email lookup
\* returned an active contact.
LinkCase ==
    /\ Synced("customer")
    /\ last.before = NoMapping
    /\ last.res.match = "active"

LinkOutcome ==
    /\ last.res.action = "updated" /\ last.res.error = "" /\ ~last.res.exc
    /\ last.res.creates = 0
    /\ last.res.updates = 1
    /\ LastMapping # NoMapping
    /\ LastMapping.xero_id = last.res.newId

C7_Create ==
    (/\ Synced("customer")
     /\ last.before = NoMapping
     /\ last.res.match = "none"
     /\ ~last.dry
     /\ last.res.out.creates = "ok")
    => (/\ last.res.action = "created" /\ last.res.error = "" /\ ~last.res.exc
        /\ last.res.creates = 1
        /\ Cardinality({r \in mappings : r.shopify_id = LastSid}) = 1
        /\ LastMapping.xero_id = last.res.newId
        /\ LastMapping.entity_type = "customer"
        /\ LastMapping.checksum = last.fp
        /\ \E k \in contacts : k.id = last.res.newId /\ k.email = last.key)

C7_Witness ==
    /\ Synced("customer")
    /\ last.before = NoMapping
    /\ last.res.match = "none"
    /\ ~last.dry
    /\ last.res.out.creates = "ok"
    /\ last.res.lookups = 1

\* C8 -- Order immutability: a mapped order whose content changed is recorded
\* as skipped, its new checksum is stored, and no update, create or archive
\* call is issued.
C8_OrderImmutable ==
    (/\ Synced("order")
     /\ last.before # NoMapping
     /\ has_changed(last.before.checksum, last.fp))
    => (/\ last.res.action = "skipped" /\ last.res.error = "" /\ ~last.res.exc
        /\ LastMapping.checksum = last.fp
        /\ LastMapping.xero_id = last.before.xero_id
        /\ last.res.updates = 0 /\ last.res.creates = 0 /\ last.res.archives = 0)

C8_Witness ==
    /\ Synced("order")
    /\ last.before.entity_type = "order"
    /\ has_changed(last.before.checksum, last.fp)
    /\ \E i \in invoices : i.id = last.before.xero_id
    /\ LastMapping.checksum = last.fp

\* C9 -- Scenario C: for a product mapped to an item whose code differs from
\* the product's SKU, a run that is not a dry run and in which no mutating
\* call fails archives the old item with one call, creates the new item with
\* one call, repoints the mapping to it and records created.
C9_SkuChange ==
    (/\ Synced("product")
     /\ last.before.entity_type = "product"
     /\ last.item # NoItem
     /\ last.item.code # last.key
     /\ has_changed(last.before.checksum, last.fp)
     /\ ~last.dry
     /\ ~last.res.exc
     /\ ~Failed(last.res.out.archives)
     /\ ~Failed(last.res.out.creates)
     /\ ~Failed(last.res.out.updates))
    => (/\ last.res.archives = 1
        /\ last.res.creates = 1
        /\ last.res.action = "created"
        /\ LastMapping.xero_id = last.res.newId
        /\ LastMapping.xero_id # last.before.xero_id)

\* C10 -- Dry runs repeat: two consecutive dry runs over the same content, in
\* which no remote call fails, record the same action for every entity.
C10_DryRunsRepeat ==
    \A e \in Entities :
        (/\ Processed(prevOut[e]) /\ Processed(curOut[e])
         /\ prevOut[e].dry /\ curOut[e].dry
         /\ prevOut[e].failed = 0 /\ curOut[e].failed = 0
         /\ prevOut[e].fp = curOut[e].fp)
        => curOut[e].action = prevOut[e].action

\* The entity last synced, as a key of curOut and prevOut.
LastEntity == <<last.etype, last.id>>
\* What the phase records for the entity last synced.
LastOutcome ==
    IF last.res.exc \/ last.res.error # "" THEN "error" ELSE last.res.action
NoMutatingCall(r) == r.creates = 0 /\ r.updates = 0 /\ r.archives = 0

\* The dry run before this run found the same content, the same mapping
\* state and the same destination match for the customer or product last
\* synced, and no remote call failed for it in either run.
SameCaseAsDryRun ==
    /\ last.etype \in {"customer", "product"}
    /\ ~last.dry
    /\ prevOut[LastEntity].action # "none"
    /\ prevOut[LastEntity].dry
    /\ prevOut[LastEntity].fp = last.fp
    /\ prevOut[LastEntity].mapped = (last.before # NoMapping)
    /\ prevOut[LastEntity].match = last.res.match
    /\ prevOut[LastEntity].failed = 0
    /\ last.res.failed = 0

\* In dry-run mode the sync of an entity issues no create, update or archive
\* call, and reports an action when no remote call failed.
C11_DryRunIssuesNoMutatingCall ==
    (last.etype \in EntityTypes /\ last.dry)
    => (/\ NoMutatingCall(last.res)
        /\ (last.res.failed = 0 => last.res.action \in {"created", "updated", "skipped"}))

\* No step of a dry run changes the destination.
DryRunLeavesDestination == [][run.dry_run => UNCHANGED remoteVars]_vars

\* C11 -- In dry-run mode no create, update or archive call is issued on any
\* path, and the action reported is the action the real run takes in the same
\* case.
C11_DryRun ==
    /\ C11_DryRunIssuesNoMutatingCall
    /\ SameCaseAsDryRun => LastOutcome = prevOut[LastEntity].action

PhaseOf(etype) == etype \o "s"
TableOf(etype) ==
    CASE etype = "customer" -> customers
      [] etype = "product" -> products
      [] etype = "order" -> orders
\* The loop of the phase has come to its end in the current run.
PhaseDone(etype) ==
    \/ pc = PhaseOf(etype) /\ queue = <<>>
    \/ etype = "customer" /\ pc \in {"products", "orders"}
    \/ etype = "product" /\ pc = "orders"
LastFailed == last.res.exc \/ last.res.error # ""
LastMessage ==
    IF last.res.exc
    THEN TypeName(last.etype) \o " " \o LastSid \o ": " \o last.res.error
    ELSE last.res.error
InErrorList(msg, phase) ==
    \E i \in DOMAIN stats[phase].errors : stats[phase].errors[i] = msg

\* C12 -- Per-entity failure isolation: when the sync of an entity fails, an
\* error row with its message exists for that (entity_type, shopify_id), the
\* message is in the error list of the phase, and once the loop of a phase
\* whose fetch succeeded has ended, every fetched entity has been processed.
C12_FailureIsolation ==
    /\ (last.etype \in EntityTypes /\ last.run = run.id /\ LastFailed)
       => (/\ \E r \in errors : /\ r.entity_type = last.etype
                                 /\ r.shopify_id = LastSid
                                 /\ r.error_message = last.res.error
           /\ InErrorList(LastMessage, PhaseOf(last.etype)))
    /\ \A etype \in EntityTypes :
          (pc # "idle" /\ PhaseDone(etype) /\ stats[PhaseOf(etype)].success)
          => \A k \in DOMAIN Fetched(TableOf(etype)) :
                curOut[<<etype, Fetched(TableOf(etype))[k].id>>].action # "none"

\* Customer 1 failed and customer 2 was processed after it in the same run.
C12_Witness ==
    /\ pc = "customers" /\ queue = <<>>
    /\ curOut[<<"customer", 1>>].action = "error"
    /\ curOut[<<"customer", 2>>].action \in {"created", "updated"}
    /\ Synced("customer") /\ last.id = 2
    /\ \E r \in errors : r.entity_type = "customer" /\ r.shopify_id = "1"

FetchFailed(phase) ==
    \E outcome \in FetchOutcomes \ {"ok"} : InErrorList(FetchMessage(outcome), phase)
\* The steps of the fixed sequence of run_full_sync.
Sequence == {<<"idle", "start">>, <<"start", "customers">>,
             <<"customers", "products">>, <<"products", "orders">>,
             <<"orders", "idle">>}

AuthFailed(phase) == InErrorList(FetchMessage("auth"), phase)

\* C14 -- An authentication failure ends the run at once: after it the
\* engine is in no later phase.
C14_AuthFailureIsFatal ==
    \A phase \in DOMAIN stats : AuthFailed(phase) => pc \in {phase, "idle"}

SameEntity(r1, r2) ==
    r1.entity_type = r2.entity_type /\ r1.shopify_id = r2.shopify_id
\* A call of record_error on the store, outside a run.
RecordErrorStep == pc = "idle" /\ errors' # errors

\* C17 -- At most one error row exists per (entity_type, shopify_id); a call
\* of record_error for an entity without a row adds a row with retry_count
\* 0, and a call for an entity with a row adds none, increments the
\* retry_count of that row by one and replaces its message; the rows of other
\* entities stay as they are.
C17_OneErrorRowPerEntity ==
    /\ [](\A r1, r2 \in errors : SameEntity(r1, r2) => r1 = r2)
    /\ [][RecordErrorStep =>
            \E n \in errors' \ errors :
               /\ errors' \ errors = {n}
               /\ n.error_message = "manual"
               /\ IF \E o \in errors : SameEntity(o, n)
                  THEN \E o \in errors :
                          /\ SameEntity(o, n)
                          /\ errors \ errors' = {o}
                          /\ n.id = o.id
                          /\ n.retry_count = o.retry_count + 1
                  ELSE errors \ errors' = {} /\ n.retry_count = 0]_vars

\* record_error was called for customer 2, whose row was at retry_count 2:
\* the one row of customer 2 is at retry_count 3 with the message of the call.
C17_Witness ==
    /\ pc = "idle"
    /\ \E r \in errors : /\ r.entity_type = "customer" /\ r.shopify_id = "2"
                         /\ r.error_message = "manual" /\ r.retry_count = 3
    /\ Cardinality(errors) = 1

CurrentRecord == {h \in history : h.run_id = run.id}
Finalized(h) == h.status # "running"

\* The record of a run is inserted with status running before any phase.
RunRecordInserted ==
    pc # "idle" => \E h \in CurrentRecord : h.status = "running" /\ h.errors = <<>>
\* A finalized record is never modified or removed.
FinalizedRecordKept == [][\A h \in history : Finalized(h) => h \in history']_vars
\* The record of a run whose phases returned has the counts and errors of the
\* phases; the record of a run that raised from its try block is failed with
\* the message of the exception as its only error.
RunRecordFinalized ==
    \A h \in history :
        (Finalized(h) /\ h.run_id = run.id /\ run.id > 0)
        => \/ /\ h.errors = TotalErrors
              /\ h.status = (IF Len(TotalErrors) = 0 THEN "success" ELSE "failed")
              /\ h.entities_processed = TotalProcessed(stats["customers"])
                    + TotalProcessed(stats["products"]) + TotalProcessed(stats["orders"])
           \/ h.status = "failed" /\ h.errors = <<"exc">> /\ h.entities_processed = 0

\* C15 -- Run record lifecycle: the record of a run is inserted with status
\* running before any phase, is finalized with the counts and errors of the
\* phases or as failed with the message of the exception, is not modified
\* once finalized, and no record is in status running when run_full_sync is
\* not under way.
C15_RunRecordLifecycle ==
    /\ []RunRecordInserted
    /\ []RunRecordFinalized
    /\ FinalizedRecordKept
    /\ [](pc = "idle" => \A h \in history : Finalized(h))

\* C16 -- The fetch of every phase returns the entities updated at or after
\* the completed_at of every run record with status success, all entities
\* when there is no such record, and all entities when force is set; records
\* that are failed or running set no lower bound.
C16_IncrementalSince ==
    [][\A etype \in EntityTypes :
          (pc # pc' /\ pc' = PhaseOf(etype) /\ stats'[pc'].success)
          => {queue'[k].id : k \in DOMAIN queue'}
             = {i \in DOMAIN TableOf(etype) :
                   run.force \/ \A h \in history :
                                   h.status = "success"
                                   => TableOf(etype)[i].updated_at >= h.completed_at}]_vars

\* A run that is not forced, after a successful run and an edit of customer
\* 2, has fetched customer 2 and not customer 1.
C16_Witness ==
    /\ pc = "customers"
    /\ ~run.force
    /\ \E h \in history : h.status = "success" /\ h.completed_at > 0
    /\ Len(queue) = 1 /\ queue[1].id = 2
    /\ stats["customers"].success

\* An entity was created, linked or updated: the action is created or
\* updated, or a destination record was found and linked to.
Success(r) ==
    /\ ~r.exc /\ r.error = ""
    /\ r.action \in {"created", "updated"} \/ r.match = "active"
HasErrorRow(etype, sid) ==
    \E r \in errors : r.entity_type = etype /\ r.shopify_id = sid
\* The retry call under way has just called _sync_single_customer.
RetrySynced ==
    pc = "retry" /\ retry.etype = "customer" /\ <<"customer", retry.sid>> \in retry.synced

\* C18 -- After a successful sync of an entity (created, linked or updated)
\* that is not a dry run, in a full run or in retry mode, no error row of that
\* entity is left.
C18_SuccessClearsError ==
    /\ (last.etype \in EntityTypes /\ ~last.dry /\ Success(last.res))
       => ~HasErrorRow(last.etype, LastSid)
    /\ (RetrySynced /\ ~retry.dry /\ Success(retry.res))
       => ~HasErrorRow("customer", retry.sid)

\* Scenario D: the row of customer 2 was at retry_count 2, max_retries is 3,
\* the retry created the contact, and the row is gone.
C18_Witness ==
    /\ RetrySynced /\ ~retry.dry /\ retry.sid = "2"
    /\ retry.max_retries = 3
    /\ EarlierError \in retry.rows
    /\ retry.res.action = "created" /\ Success(retry.res)
    /\ ~HasErrorRow("customer", "2")

\* The rows the retry call found below and at the ceiling.
BelowCeiling == {r \in retry.rows : r.retry_count < retry.max_retries}
AtCeiling == {r \in retry.rows : r.retry_count >= retry.max_retries}
\* The loop of the retry call has come to its end.
RetryDone == pc = "retry" /\ queue = <<>>
\* The source could not be asked for the entity of the row.
RetryFetchFailed(r) ==
    \E i \in DOMAIN retry.result.errors :
        retry.result.errors[i] = RetryMessage(r, "exc")

\* C19 -- Retry mode replays the entities with an error row below the
\* ceiling and no other: a row at the ceiling stays as it is and its entity
\* is not synced, an entity without a row is not synced, and when the loop
\* has ended every entity with a row below the ceiling that the source
\* could be asked for has been synced.
C19_RetryReplaysBelowCeiling ==
    pc = "retry" =>
        /\ \A r \in AtCeiling :
              r \in errors /\ <<r.entity_type, r.shopify_id>> \notin retry.synced
        /\ \A e \in retry.synced :
              \E r \in BelowCeiling : e = <<r.entity_type, r.shopify_id>>
        /\ RetryDone =>
              \A r \in BelowCeiling :
                  \/ <<r.entity_type, r.shopify_id>> \in retry.synced
                  \/ RetryFetchFailed(r)

\* The part of C19 that is about customers.
RetryReplaysCustomers ==
    pc = "retry" =>
        /\ \A r \in AtCeiling :
              r.entity_type = "customer"
              => r \in errors /\ <<r.entity_type, r.shopify_id>> \notin retry.synced
        /\ \A e \in retry.synced :
              \E r \in BelowCeiling : e = <<r.entity_type, r.shopify_id>>
        /\ RetryDone =>
              \A r \in BelowCeiling :
                  \/ r.entity_type # "customer"
                  \/ <<r.entity_type, r.shopify_id>> \in retry.synced
                  \/ RetryFetchFailed(r)

\* At most one mapping row per shopify_id.
ConcurrentMappingUnique ==
    \A m1, m2 \in mappings : m1.shopify_id = m2.shopify_id => m1 = m2
\* At most one error row per (entity_type, shopify_id).
ConcurrentErrorUnique ==
    \A r1, r2 \in errors : SameEntity(r1, r2) => r1 = r2

\* C20 -- When two processes share the store and their upsert_mapping and
\* record_error calls for one entity interleave, there is still at most one
\* mapping row per shopify_id and at most one error row per
\* (entity_type, shopify_id).
C20_StoreInvariantsUnderConcurrency ==
    ConcurrentMappingUnique /\ ConcurrentErrorUnique

\* run_full_sync has returned: the record of the run is finalized.
FullRunReturned ==
    pc = "idle" /\ run.id > 0 /\ \E h \in CurrentRecord : Finalized(h)

\* C21 -- The exit status of a full sync is non-zero whenever at least one
\* error was recorded in the customer, product or order phase.
C21_ExitStatusReportsErrors ==
    (FullRunReturned /\ Len(TotalErrors) > 0) => run_sync_exit # 0

\* The part of C21 that is about the customer phase.
ExitStatusReportsCustomerErrors ==
    (FullRunReturned /\ Len(stats["customers"].errors) > 0) => run_sync_exit # 0

\* The fingerprint the engine computes for the entity at the head of the queue.
HeadFingerprint ==
    IF pc = "customers" THEN calculate_customer_checksum(Head(queue))
    ELSE IF pc = "products" THEN calculate_product_checksum(Head(queue))
    ELSE calculate_order_checksum(Head(queue))
\* The entity about to be synced has a mapping with the fingerprint it has now.
FastPath ==
    /\ pc \in {"customers", "products", "orders"}
    /\ queue # <<>>
    /\ LET mapping == get_mapping(mappings, ToString(Head(queue).id))
       IN  mapping # NoMapping /\ mapping.checksum = HeadFingerprint
\* The step syncs the entity at the head of the queue.
SyncStep == queue # <<>> /\ queue' = Tail(queue)
\* The step records the entity as skipped without an error.
RecordedSkipped ==
    /\ last'.res.action = "skipped" /\ last'.res.error = "" /\ ~last'.res.exc
    /\ stats'[pc].skipped = stats[pc].skipped + 1
    /\ stats'[pc].errors = stats[pc].errors
\* The step calls neither the destination nor the store.
NoDestinationCall ==
    /\ NoMutatingCall(last'.res) /\ last'.res.lookups = 0 /\ last'.res.gets = 0
    /\ UNCHANGED <<remoteVars, storeVars>>

\* C22 -- Fast path: an entity with a mapping whose stored fingerprint
\* equals the freshly computed one is recorded as skipped, no remote call is
\* made for it to either system, and the store is not written.
C22_FastPath ==
    [][(FastPath /\ SyncStep)
       => (RecordedSkipped /\ NoDestinationCall /\ last'.res.marketing = 0)]_vars

\* The part of C22 that is about the destination and the store.
FastPathLeavesDestinationAndStore ==
    [][(FastPath /\ SyncStep) => (RecordedSkipped /\ NoDestinationCall)]_vars

\* The mapping an operator writes for (etype, id) between two runs.
ManualMapping(id, etype) ==
    [shopify_id |-> ToString(id), xero_id |-> 1, entity_type |-> etype,
     last_synced_at |-> now, shopify_updated_at |-> 0,
     checksum |-> Sha256("manual")]
\* The step is a call of upsert_mapping(m) on the store, outside a run.
UpsertStep(m) ==
    /\ pc = "idle" /\ edits' = edits + 1
    /\ UNCHANGED <<sourceVars, errors>>
    /\ mappings' = upsert_mapping(mappings, m)
\* The rows stored under other ids are the same before and after the step.
OtherRowsKept(m) ==
    {r \in mappings' : r.shopify_id # m.shopify_id}
        = {r \in mappings : r.shopify_id # m.shopify_id}
\* A row was stored under the id of m before the step, for another type.
ReplacesOtherType(m) ==
    \E r \in mappings : r.shopify_id = m.shopify_id /\ r.entity_type # m.entity_type

\* C23 -- upsert is insert-or-replace keyed by shopify_id: after
\* upsert_mapping(m), get_mapping(m.shopify_id) equals m in every field,
\* whatever row was stored under that id before, and no other row is changed.
C23_UpsertReplaces ==
    [][\A id \in CustomerIds, etype \in {"customer", "order"} :
          UpsertStep(ManualMapping(id, etype))
          => /\ get_mapping(mappings', ToString(id)) = ManualMapping(id, etype)
             /\ OtherRowsKept(ManualMapping(id, etype))]_vars

\* The part of C23 that is about the fields other than entity_type.
UpsertReplacesButType ==
    [][\A id \in CustomerIds, etype \in {"customer", "order"} :
          UpsertStep(ManualMapping(id, etype))
          => /\ [get_mapping(mappings', ToString(id)) EXCEPT !.entity_type = etype]
                   = ManualMapping(id, etype)
             /\ OtherRowsKept(ManualMapping(id, etype))]_vars

\* The entity about to be synced is a customer or product without a mapping.
NewEntity ==
    /\ pc \in {"customers", "products"}
    /\ queue # <<>>
    /\ get_mapping(mappings, ToString(Head(queue).id)) = NoMapping
\* The ids of the destination records with the natural key of that entity
\* that are archived: ARCHIVED contacts, items the SKU-change procedure
\* archived (IsSold False).
ArchivedContactIds ==
    IF pc = "customers"
    THEN {k.id : k \in {c \in contacts : c.email = Head(queue).email
                                         /\ c.status = "ARCHIVED"}}
    ELSE {}
ArchivedItemIds ==
    IF pc = "products"
    THEN {k.id : k \in {i \in items : i.code = Head(queue).sku /\ ~i.sold}}
    ELSE {}
\* The lookup of the entity can return an archived record only.
OnlyArchivedContacts ==
    /\ ArchivedContactIds # {}
    /\ \A c \in contacts : c.email = Head(queue).email => c.status = "ARCHIVED"
OnlyArchivedItems ==
    /\ ArchivedItemIds # {}
    /\ \A i \in items : i.code = Head(queue).sku => ~i.sold
\* The step leaves no mapping of the entity to one of the records ids.
NotLinkedTo(ids) ==
    get_mapping(mappings', ToString(Head(queue).id)).xero_id \notin ids
\* The step ends with the record created, when no call failed outside a dry run.
CreatedUnlessFailed ==
    (~run.dry_run /\ last'.res.failed = 0) => last'.res.action = "created"

\* C24 -- A destination match of the natural-key lookup that is archived (an
\* ARCHIVED contact, an item archived by the SKU-change procedure) is never
\* linked to: the entity is treated as having no match and a new record is
\* created.
C24_ArchivedMatchNeverLinked ==
    [][(NewEntity /\ SyncStep)
       => /\ NotLinkedTo(ArchivedContactIds \cup ArchivedItemIds)
          /\ (OnlyArchivedContacts \/ OnlyArchivedItems) => CreatedUnlessFailed]_vars

\* The part of C24 that is about contacts.
ArchivedContactNeverLinked ==
    [][(NewEntity /\ SyncStep)
       => /\ NotLinkedTo(ArchivedContactIds)
          /\ OnlyArchivedContacts => CreatedUnlessFailed]_vars

\* The order last synced had no mapping and its reference matched an invoice.
OrderLinked ==
    /\ last.etype = "order"
    /\ last.before = NoMapping
    /\ last.res.match = "active"
    /\ ~last.res.exc


\* C25 -- A new order whose reference matches an existing invoice is linked
\* to it: the mapping is written with the id of the invoice, the order data
\* is pushed to the invoice as an update, the action recorded is updated and
\* no create call is made.
C25_NewOrderLinkedAndUpdated ==
    (OrderLinked /\ ~last.dry)
    => /\ LastMapping.xero_id = last.res.newId
       /\ LastMapping.entity_type = "order"
       /\ last.res.creates = 0
       /\ last.res.updates = 1
       /\ last.res.action = "updated"

\* The part of C25 that is about the mapping and the create call.
NewOrderLinked ==
    (OrderLinked /\ ~last.dry)
    => /\ LastMapping.xero_id = last.res.newId
       /\ LastMapping.entity_type = "order"
       /\ last.res.creates = 0


\* C26 -- A dry run in which every fetch and lookup call succeeds records no
\* error in any phase: without mutations a dry run can fail only on fetch and
\* connection errors.
C26_DryRunRecordsNoError ==
    (FullRunReturned /\ run.dry_run /\ faults = 0)
    => /\ Len(TotalErrors) = 0
       /\ \A h \in CurrentRecord : h.status = "success"

\* The part of C26 that is about the customer and the product phase.
DryRunRecordsNoCustomerOrProductError ==
    (FullRunReturned /\ run.dry_run /\ faults = 0)
    => Len(stats["customers"].errors) = 0 /\ Len(stats["products"].errors) = 0

\* C27 -- Every source-adapter request ends after a bounded number of
\* attempts: no more than retries attempts are made, and once retries
\* attempts have each ended in a timeout, a connection error or a 429
\* response the call has raised.
C27_RequestAttemptsBounded ==
    /\ request.attempts <= retries
    /\ request.transient >= retries => request.state = "raised"

\* The part of C27 that is about the REST client.
RestRequestAttemptsBounded ==
    request.client = "rest"
    => /\ request.attempts <= retries
       /\ request.transient >= retries => request.state = "raised"

\* The customer ids the job was handed.
BulkIdSet == {bulk.customer_ids[k] : k \in DOMAIN bulk.customer_ids}

\* C28 -- The bulk marketing-consent job attempts every customer id exactly
\* once, in batches of at most batch_size processed one after another; a
\* failing update aborts neither its batch nor the remaining batches, and
\* the result has updated + failed = total and success exactly when
\* failed = 0.
C28_BulkJobAttemptsEveryId ==
    /\ Len(bulk.batch) <= bulk.batch_size
    /\ \A id \in BulkIds : bulk.attempts[id] <= 1
    /\ \A id \in BulkIds \ BulkIdSet : bulk.attempts[id] = 0
    /\ bulk.state = "done"
       => /\ \A id \in BulkIdSet : bulk.attempts[id] = 1
          /\ bulk.result.total = Len(bulk.customer_ids)
          /\ bulk.result.updated + bulk.result.failed = bulk.result.total
          /\ bulk.result.success <=> (bulk.result.failed = 0)
          /\ Len(bulk.errors) = bulk.result.failed

\* The job has ended: the first update of its first batch failed, and the
\* rest of that batch and a later batch were updated.
C28_Witness ==
    /\ bulk.state = "done"
    /\ bulk.customer_ids = <<1, 2, 3>>
    /\ bulk.batch_size = 2
    /\ bulk.result = [success |-> FALSE, total |-> 3, updated |-> 2, failed |-> 1]
    /\ bulk.errors = <<"Customer 1: exc">>

\* The entity last synced had no mapping and the duplicate lookup made for
\* it before the create raised XeroAPIError.
LookupRaisedApiError ==
    /\ last.etype \in EntityTypes
    /\ last.before = NoMapping
    /\ last.res.match = "lookup_error"
\* The same, the lookup having raised another exception of the Xero SDK.
LookupRaisedOther ==
    /\ last.etype \in EntityTypes
    /\ last.before = NoMapping
    /\ last.res.lookups = 1
    /\ last.res.out.lookups = "exc"
\* The sync was not aborted and, the create having succeeded, the entity is
\* recorded as created without an error and its mapping is written.
FellThroughToCreate ==
    /\ ~last.res.exc
    /\ last.res.out.creates = "ok"
       => /\ last.res.action = "created"
          /\ last.res.error = ""
          /\ get_mapping(last.res.maps, LastSid).xero_id = last.res.newId

\* C29 -- A remote error during the duplicate lookup before the create does
\* not abort the sync of the entity and is not recorded as an error: the
\* engine goes on to the create call, and if that succeeds the entity is
\* recorded as created with its mapping written.
C29_LookupErrorFallsThrough ==
    (LookupRaisedApiError \/ LookupRaisedOther) => FellThroughToCreate

\* The part of C29 that is about a lookup raising XeroAPIError.
ApiErrorOfLookupFallsThrough ==
    LookupRaisedApiError => FellThroughToCreate
\* A lookup raised XeroAPIError and the create that followed succeeded.
ApiErrorOfLookupThenCreated ==
    LookupRaisedApiError /\ last.etype = "customer" /\ last.res.out.creates = "ok"

\* The entities the step records an outcome for in the current run.
RecordedBy == {e \in Entities : curOut'[e] # curOut[e]}
\* Some entity of the type has been processed in the current run.
SomeProcessed(etype) == \E e \in Entities : e[1] = etype /\ Processed(curOut[e])

\* C30 -- Within one run the phases execute in the order customers,
\* products, orders: an entity is processed in the phase of its type only,
\* a phase is left only when all its entities have been processed, no
\* product is processed before the customer phase has finished and no order
\* before the product phase has finished.
C30_PhaseOrder ==
    /\ [](SomeProcessed("product") => pc \in {"products", "orders", "idle"})
    /\ [](SomeProcessed("order") => pc \in {"orders", "idle"})
    /\ [][pc # "idle" => \A e \in RecordedBy : pc = PhaseOf(e[1])]_vars
    /\ [][(pc' # pc /\ pc \in {"customers", "products", "orders"}) => queue = <<>>]_vars

\* The order phase is under way after both customers and the product were
\* processed in the same run.
C30_Witness ==
    /\ pc = "orders"
    /\ \A id \in CustomerIds : Processed(curOut[<<"customer", id>>])
    /\ SomeProcessed("product")
    /\ SomeProcessed("order")
    /\ queue # <<>>

\* The fingerprinted fields of an entity: all of the sampled fields but the id.
WithoutId(e) == [e EXCEPT !.id = 0]
\* Entities whose strings hold none of the separators "|", ":" and ";", and
\* customers whose address has no phone of its own.
PlainFields(e) ==
    IF sample.kind = "customer"
    THEN e.first_name = "A" /\ e.last_name = "B" /\ e.default_address.phone = ""
    ELSE IF sample.kind = "product" THEN e.title = "T" /\ e.vendor = ""
    ELSE \A k \in DOMAIN e.line_items : e.line_items[k].title \in {"a", "b"}

\* C31 -- Fingerprint sensitivity: two customers, products or orders that
\* differ in a fingerprinted field have different pre-hash encodings and so
\* different fingerprints, and two that differ only in their id have the
\* same fingerprint.
C31_FingerprintSensitivity ==
    sample.kind # "none"
    => /\ WithoutId(sample.a) # WithoutId(sample.b)
          => sample.data[1] # sample.data[2] /\ sample.checksum[1] # sample.checksum[2]
       /\ WithoutId(sample.a) = WithoutId(sample.b)
          => sample.checksum[1] = sample.checksum[2]

\* The part of C31 that is about the id, and about fields that hold none of
\* the separators of the encoding.
FingerprintSensitivityOfPlainFields ==
    sample.kind # "none"
    => /\ (PlainFields(sample.a) /\ PlainFields(sample.b)
           /\ WithoutId(sample.a) # WithoutId(sample.b))
          => sample.checksum[1] # sample.checksum[2]
       /\ WithoutId(sample.a) = WithoutId(sample.b)
          => sample.checksum[1] = sample.checksum[2]


\* The product about to be synced has a mapping, and the item it is mapped
\* to has a code that is not the SKU of the product.
HeadMapping == get_mapping(mappings, ToString(Head(queue).id))
SkuDiffers ==
    /\ pc = "products"
    /\ queue # <<>>
    /\ HeadMapping # NoMapping
    /\ \E k \in items : k.id = HeadMapping.xero_id /\ k.code # Head(queue).sku
\* The step leaves the mapped item with the code it had.
OldItemKeepsCode ==
    \A k \in items :
        k.id = HeadMapping.xero_id
        => \E k2 \in items' : k2.id = k.id /\ k2.code = k.code
\* get_item_by_id was called and did not return the item.
GetByIdFailed == last'.res.gets > 0 /\ last'.res.match # "sku_changed"

\* C32 -- For a mapped product whose SKU differs from the code of the item
\* it is mapped to, the old item is never updated in place with the new SKU,
\* whatever the outcome of the get-by-id check: it is only archived, and a
\* new item is created.
C32_SkuChangeNeverInPlace ==
    [][(SkuDiffers /\ SyncStep) => OldItemKeepsCode]_vars

\* The part of C32 where the get-by-id check returns the item.
SkuChangeNeverInPlaceAfterGet ==
    [][(SkuDiffers /\ SyncStep /\ ~GetByIdFailed) => OldItemKeepsCode]_vars
\* A SKU change was handled by archiving and creating.
SkuChangeHandled ==
    /\ last.etype = "product" /\ last.res.match = "sku_changed"
    /\ last.res.archives = 1 /\ last.res.action = "created"


\* The step is the fetch of a phase by a run without --force, and succeeds.
IncrementalFetch(phase) ==
    /\ pc # phase /\ pc' = phase
    /\ ~run.force
    /\ stats'[phase].success
\* The fingerprint of the content an entity has.
FingerprintOf(etype, e) ==
    IF etype = "customer" THEN calculate_customer_checksum(e)
    ELSE IF etype = "product" THEN calculate_product_checksum(e)
    ELSE calculate_order_checksum(e)
\* The entity was modified, and no run so far has fetched what it is now.
ChangeNotFetched(etype, id) ==
    /\ TableOf(etype)[id].updated_at > 0
    /\ prevOut[<<etype, id>>].fp # FingerprintOf(etype, TableOf(etype)[id])
\* The step fetches the entity.
FetchedNow(id) == \E k \in DOMAIN queue' : queue'[k].id = id

\* C33 -- No source change is lost by incremental sync: an entity modified
\* in the source is fetched by a later run without --force, also when it is
\* modified while a run that ends with status success is under way, after
\* the fetch of its phase and before completed_at is recorded.
C33_NoChangeLost ==
    [][\A etype \in EntityTypes :
           IncrementalFetch(PhaseOf(etype))
           => \A id \in DOMAIN TableOf(etype) :
                  ChangeNotFetched(etype, id) => FetchedNow(id)]_vars
\* An incremental run has fetched an entity modified between two runs.
ChangeFetched ==
    /\ pc = "customers" /\ ~run.force /\ queue # <<>>
    /\ Head(queue).updated_at > 0
    /\ prevOut[<<"customer", Head(queue).id>>].fp # HeadFingerprint
    /\ prevOut[<<"customer", Head(queue).id>>].action # "none"


\* The sync of the entity last synced ended in a recorded error.
EndedInError ==
    /\ last.etype \in EntityTypes
    /\ last.res.exc \/ last.res.error # ""
    /\ LastHasError
\* The store holds the fingerprint of what was just synced.
FingerprintStored == LastMapping # NoMapping /\ LastMapping.checksum = last.fp

\* C34 -- The stored fingerprint of an entity never equals the fingerprint of
\* content whose sync ended in a recorded error, so that the next run that
\* sees the entity unchanged attempts a remote call for it again instead of
\* skipping it.
C34_ErrorNeverFingerprinted == EndedInError => ~FingerprintStored

\* The part of C34 for entities that were not linked to a record found by
\* their natural key.
ErrorNeverFingerprintedUnlessLinked ==
    (EndedInError /\ last.res.match # "active") => ~FingerprintStored
\* An update of a mapped entity has failed.
UpdateOfMappedFailed ==
    /\ EndedInError /\ last.before # NoMapping /\ last.res.updates = 1
    /\ last.etype = "customer" /\ last.before.entity_type = "customer"


\* The mapping get_mapping returned to the sync of the entity last synced is
\* of the type of that entity, and so is the mapping the sync wrote.
ConsultedOwnType ==
    last.before # NoMapping => last.before.entity_type = last.etype
WroteOwnType ==
    LastMapping # last.before => LastMapping.entity_type = last.etype

\* C35 -- A mapping consulted while syncing an entity of type T has
\* entity_type T: no entity is skipped, updated or repointed on the basis of
\* a row written for an entity of another type with the same source id, and
\* the entity_type of a mapping is the type of the entity that last wrote it.
C35_MappingOfOwnType ==
    last.etype \in EntityTypes => (ConsultedOwnType /\ WroteOwnType)

\* The part of C35 for source ids that one entity type only uses.
MappingOfOwnTypeForUnsharedIds ==
    (last.etype \in EntityTypes /\ last.id \notin (CustomerIds \cap OrderIds))
    => (ConsultedOwnType /\ WroteOwnType)


\* No error row is left below the max_retries ceiling.
NoRowBelowCeiling == get_errors(errors, NoRetry.max_retries) = <<>>
\* No error row of an order is left.
NoOrderRow == \A r \in errors : r.entity_type # "order"

\* C36 -- Repeated retry-mode invocations make progress: every error row is
\* eventually removed or reaches the max_retries ceiling, also when the
\* entity keeps failing or keeps being skipped; no entity is retried forever.
C36_RetryProgress == []<>NoRowBelowCeiling

\* The part of C36 that is about the error rows of orders.
RetryProgressForOrders == []<>NoOrderRow


\* The step is the body of the loop of retry_failed_syncs for one row.
RetryStep == pc = "retry" /\ queue # <<>> /\ queue' = Tail(queue)
\* The rows the step removes.
RemovedRows == errors \ errors'
\* The step synced the entity of the row, with success.
SyncedInStep(r) ==
    /\ retry'.etype = r.entity_type /\ retry'.sid = r.shopify_id
    /\ <<r.entity_type, r.shopify_id>> \in retry'.synced
    /\ Success(retry'.res)
\* The source has no entity of the row any more.
NotInSource(r) ==
    \A i \in DOMAIN TableOf(r.entity_type) : ToString(i) # r.shopify_id

\* C37 -- Retry mode removes an error row only when the entity was synced
\* successfully during that retry or is no longer in the source; the row of
\* a product or an order is never removed without a sync of it attempted.
C37_RetryRemovesOnlyAfterSync ==
    [][RetryStep => \A r \in RemovedRows : SyncedInStep(r) \/ NotInSource(r)]_vars

\* The part of C37 for the row of a customer that the step handles, when
\* the customer is not linked to a contact found by email.
RetryRemovesCustomerRowOnlyAfterSync ==
    [][RetryStep
       => \A r \in RemovedRows :
              (/\ r.entity_type = "customer" /\ SameEntity(r, Head(queue))
               /\ retry'.res.match # "active")
              => SyncedInStep(r)]_vars
\* A retry has removed the row of a customer it created the contact of.
RetryRemovedAfterCreate ==
    /\ pc = "retry" /\ retry.etype = "customer" /\ retry.res.action = "created"
    /\ \E r \in retry.rows : r.shopify_id = retry.sid /\ r \notin errors


\* The record of the current run in sync_history.
RunRecord == CHOOSE h \in history : h.run_id = run.id
\* The current run has come to its end.
RunEnded == run.id > 0 /\ pc = "idle"

\* C38 -- A run in dry-run mode never becomes the last successful run: the
\* lower bound of a later real run, and so the set of entities it fetches, is
\* what it would be had the dry run not been executed.
C38_DryRunNotLastSuccess ==
    (run.dry_run /\ RunEnded)
    => /\ RunRecord.status # "success"
       /\ get_last_successful_sync < RunRecord.completed_at

\* A run that is not a dry run and ends without errors is the last
\* successful run.
RealRunIsLastSuccess ==
    (~run.dry_run /\ RunEnded /\ RunRecord.status = "success")
    => get_last_successful_sync = RunRecord.completed_at
\* A dry run that recorded an error is not the last successful run.
FailedDryRunNotLastSuccess ==
    (run.dry_run /\ RunEnded /\ Len(RunRecord.errors) > 0)
    => /\ RunRecord.status # "success"
       /\ get_last_successful_sync < RunRecord.completed_at

\* The error rows the sync of the entity at the head of the queue removes.
ClearedRows == {r \in errors : \A s \in errors' : s.id # r.id}
\* The step is the sync of an entity by a full run.
EntitySyncStep == pc \in {"customers", "products", "orders"} /\ SyncStep

ClearErrorOfOneId ==
    [][EntitySyncStep
       => \A r \in ClearedRows : r.shopify_id = ToString(last'.id)]_vars
\* The row of an entity that was synced with success has been cleared.
ErrorCleared ==
    /\ last.etype = "customer" /\ last.id = 2 /\ Success(last.res) /\ ~last.dry
    /\ EarlierError \notin errors
    /\ last.res.action = "created"


\* The item the product about to be synced is mapped to was archived by an
\* earlier run: it is not sold and its name has the prefix.
MappedItemArchived ==
    /\ pc = "products"
    /\ queue # <<>>
    /\ HeadMapping # NoMapping
    /\ \E k \in items : /\ k.id = HeadMapping.xero_id
                        /\ ~k.sold
                        /\ k.name \in {"[ARCHIVED] T", "[ARCHIVED] T2"}
\* No item has the prefix twice.
NoSecondPrefix ==
    \A k \in items' :
        k.name \notin {"[ARCHIVED] [ARCHIVED] T", "[ARCHIVED] [ARCHIVED] T2"}

\* C40 -- The old item of a SKU change is archived at most once: when the
\* create call failed after the archive call succeeded, a later run does not
\* archive the item again and adds no second prefix to its name.
C40_ArchivedAtMostOnce ==
    [][(MappedItemArchived /\ SyncStep)
       => (last'.res.archives = 0 /\ NoSecondPrefix)]_vars

\* An archive call is issued for a SKU change only, and once in a sync.
ArchivedForSkuChangeOnly ==
    [][(pc = "products" /\ SyncStep /\ last'.res.archives > 0)
       => (SkuDiffers /\ last'.res.archives = 1)]_vars

====
